---- MODULE Spec2Model ----
(***************************************************************************)
(* Cat Stack: the mode-aware game state machine (state.ts), the tower      *)
(* manager (tower.ts), the sticky-landing checks (physics.ts), the         *)
(* pendulum (pendulum.ts), scoring (scoring.ts), the input handler         *)
(* (input.ts) and their orchestration by the useGame hook (useGame.ts).    *)
(*                                                                         *)
(* Units: y and all sizes are canvas pixels; x is kept in 1/100 pixel so   *)
(* that overlaps such as 0.549 are exact; times are milliseconds; a body   *)
(* speed is kept in 1/10 of a Matter.js velocity unit.                     *)
(***************************************************************************)
EXTENDS Integers, Sequences, FiniteSets, TLC

\* ------------------------------------------------------------------ bounds
\* the wall clock (Date.now()) at page load, the span of wall-clock time
\* explored after it, and the number of cats dropped in one round
Epoch == 1000
MaxNow == 1100
MaxDrops == 3
\* the time between two animation frames
FrameGap == 100

\* ------------------------------------------------------- program constants
CANVAS_WIDTH == 720
CANVAS_HEIGHT == 1280
GROUND_HEIGHT == 60
GROUND_Y == CANVAS_HEIGHT - GROUND_HEIGHT \div 2
DEATH_ZONE_Y == CANVAS_HEIGHT + 100
PENDULUM_Y == 100
SWING_PERIOD == 3500
DROP_DEBOUNCE_MS == 100
WIN_LINE_Y == 128
STICKY_SETTLE_TIME == 300
STABILITY_TIME_REQUIRED == 2000
POINTS_PER_STACK == 1
PERFECT_BONUS == 2
PERFECT_DISPLAY_DURATION == 1500
CAT_WIDTH == 80
CAT_HEIGHT == 60
DIFFICULTY_THRESHOLDS == <<5, 10, 15, 20, 25, 30>>
\* STABILITY_VELOCITY_THRESHOLD = 0.5 and WOBBLE_VELOCITY_THRESHOLD = 2.0,
\* in tenths of a velocity unit
STABILITY_VELOCITY_THRESHOLD == 5
WOBBLE_VELOCITY_THRESHOLD == 20
\* the delay of the deferred input re-enable (setTimeout(..., 500))
REENABLE_DELAY == 500
\* the click-through guard of handleModeButtonClick (Date.now() - t < 100)
CLICK_THROUGH_MS == 100
\* the frame-delta cap of useGameLoop (0.1 s) and of updatePendulum (33 ms)
LOOP_DELTA_CAP == 100
PENDULUM_DELTA_CAP == 33

\* x is in 1/100 pixel
Px(n) == n * 100
\* SWING_AMPLITUDE (0.35) * CANVAS_WIDTH = 252 px, in 1/100 px
AMPLITUDE == 25200
\* OVERLAP_THRESHOLD = 0.55 and PERFECT_THRESHOLD = 0.125, in per mille
OVERLAP_THRESHOLD == 550
PERFECT_THRESHOLD == 125
\* the alignment tolerance of isClassicCatAligned, 0.8, in per mille
ALIGN_TOLERANCE == 800
\* SPEED_INCREASE_FACTOR = 0.175: (1 + F) = 47/40
SPEED_NUM == 47
SPEED_DEN == 40

Null == -1
GROUND == 0

Min(a, b) == IF a < b THEN a ELSE b
Max(a, b) == IF a > b THEN a ELSE b
Abs(a) == IF a < 0 THEN -a ELSE a

Range(s) == {s[i] : i \in 1..Len(s)}

\* ------------------------------------------------------------- rationals
\* speedMultiplier and accumulatedTime are JavaScript numbers; they are kept
\* as exact fractions <<numerator, denominator>> in lowest terms.
RECURSIVE Gcd(_, _)
Gcd(a, b) == IF b = 0 THEN a ELSE Gcd(b, a % b)

Rat(n, d) == LET g == Gcd(Abs(n), d) IN <<n \div g, d \div g>>

RatOfInt(n) == <<n, 1>>

RatAdd(a, b) == Rat(a[1] * b[2] + b[1] * a[2], a[2] * b[2])

\* cross-cancelled so that intermediate products stay small
RatMul(a, b) ==
  LET g1 == Gcd(Abs(a[1]), b[2])
      g2 == Gcd(Abs(b[1]), a[2])
  IN Rat((a[1] \div g1) * (b[1] \div g2), (a[2] \div g2) * (b[2] \div g1))

RatInv(a) == <<a[2], a[1]>>

RatFloor(a) == a[1] \div a[2]

RECURSIVE RatPow(_, _)
RatPow(a, k) == IF k = 0 THEN <<1, 1>> ELSE RatMul(a, RatPow(a, k - 1))

\* ------------------------------------------------------------- the state
VARIABLES
  gameState,   \* GameState (state.ts) with its ScoreState, TowerState, PendulumState
  world,       \* ids of the bodies in physics.world (GROUND and cat bodies)
  bodies,      \* the live Matter.js cat bodies with their CatBodyData, by id
  catsRef,     \* useGame's catsRef: the cats it renders and squishes
  inputState,  \* InputState of the input handler
  timers,      \* pending setTimeout callbacks of transitionToGameOver/Win
  refs,        \* useGame's bestScoreUpdatedRef and modeSelectEnteredTimeRef
  ui,          \* useGame's React state (isInStartState, isPlaying)
  now,         \* Date.now()
  storage,     \* window.localStorage, and whether an exception has escaped
  trace,       \* the calls made by the last handler, in order
  roundHighScore  \* history: scoreState.highScore when the round in progress started

vars == <<gameState, world, bodies, catsRef, inputState, timers, refs, ui, now,
          storage, trace, roundHighScore>>

\* The program state as one value, so that the functions of the source can
\* be written as functions from state to state and composed as in the code.
Cur ==
  [gs |-> gameState, world |-> world, bodies |-> bodies, catsRef |-> catsRef,
   input |-> inputState, timers |-> timers, refs |-> refs, ui |-> ui,
   now |-> now, storage |-> storage, trace |-> trace]

Call(m, name) == [m EXCEPT !.trace = Append(@, name)]

\* ------------------------------------------------------------ pendulum.ts
createPendulum ==
  [speedMultiplier |-> <<1, 1>>, difficultyLevel |-> 0, accumulatedTime |-> <<0, 1>>]

\* Math.sin(2*PI*t/P) * AMPLITUDE for a whole number of milliseconds t in
\* [0, P/2], by Bhaskara's rational approximation of the sine
\* (sin(a) ~ 16a(PI-a) / (5PI^2 - 4a(PI-a)), error below 0.2%).
HalfSwing(t) ==
  LET q == (t * (SWING_PERIOD - 2 * t)) \div 125
      d == (5 * SWING_PERIOD * SWING_PERIOD) \div 1000
  IN (4 * AMPLITUDE * q) \div (d - q)

SwingOffset(t) ==
  LET tt == t % SWING_PERIOD
  IN IF 2 * tt <= SWING_PERIOD THEN HalfSwing(tt)
     ELSE -HalfSwing(tt - SWING_PERIOD \div 2)

getPendulumPosition(pendulum, time) ==
  LET phase == RatFloor(RatMul(time, pendulum.speedMultiplier))
  IN [x |-> Px(CANVAS_WIDTH \div 2) + SwingOffset(phase), y |-> PENDULUM_Y]

getCurrentPendulumPosition(pendulum) ==
  getPendulumPosition(pendulum, pendulum.accumulatedTime)

updatePendulum(pendulum, deltaTimeMs) ==
  LET cappedDelta == Min(deltaTimeMs, PENDULUM_DELTA_CAP)
  IN [pendulum EXCEPT !.accumulatedTime = RatAdd(@, RatOfInt(cappedDelta))]

\* (variant: the accumulated time is kept as it is)
increasePendulumDifficultyKeepTime(pendulum, newLevel) ==
  [pendulum EXCEPT !.difficultyLevel = newLevel,
                   !.speedMultiplier = RatPow(<<SPEED_NUM, SPEED_DEN>>, newLevel)]

increasePendulumDifficulty(pendulum, newLevel) ==
  LET oldSpeedMultiplier == pendulum.speedMultiplier
      newSpeedMultiplier == RatPow(<<SPEED_NUM, SPEED_DEN>>, newLevel)
  IN [pendulum EXCEPT
        !.accumulatedTime =
           IF newSpeedMultiplier # oldSpeedMultiplier
           THEN RatMul(@, RatMul(oldSpeedMultiplier, RatInv(newSpeedMultiplier)))
           ELSE @,
        !.difficultyLevel = newLevel,
        !.speedMultiplier = newSpeedMultiplier]

resetPendulum(pendulum) ==
  [pendulum EXCEPT !.speedMultiplier = <<1, 1>>, !.difficultyLevel = 0,
                   !.accumulatedTime = <<0, 1>>]

\* (variant: a threshold counts only once it is passed)
RECURSIVE ThresholdLevelPassed(_, _, _)
ThresholdLevelPassed(stackedCats, thresholds, i) ==
  IF i = 0 THEN 0
  ELSE IF stackedCats > thresholds[i] THEN i
  ELSE ThresholdLevelPassed(stackedCats, thresholds, i - 1)

checkDifficultyThresholdPassed(stackedCats, currentLevel, thresholds) ==
  ThresholdLevelPassed(stackedCats, thresholds, Len(thresholds))

RECURSIVE ThresholdLevel(_, _, _)
ThresholdLevel(stackedCats, thresholds, i) ==
  IF i = 0 THEN 0
  ELSE IF stackedCats >= thresholds[i] THEN i
  ELSE ThresholdLevel(stackedCats, thresholds, i - 1)

\* the loop keeps the last i with stackedCats >= thresholds[i]
checkDifficultyThreshold(stackedCats, currentLevel, thresholds) ==
  ThresholdLevel(stackedCats, thresholds, Len(thresholds))

\* ------------------------------------------------------------- scoring.ts
\* A string is a sequence of characters.  Number.prototype.toString of an
\* integer, and parseInt(string, 10): an optional sign and the leading
\* digits, NaN if there are none.
Digits == <<"0", "1", "2", "3", "4", "5", "6", "7", "8", "9">>

IsDigit(c) == \E d \in 1..Len(Digits) : Digits[d] = c

DigitValue(c) == (CHOOSE d \in 1..Len(Digits) : Digits[d] = c) - 1

RECURSIVE toString(_)
toString(n) ==
  IF n < 0 THEN <<"-">> \o toString(-n)
  ELSE IF n < Len(Digits) THEN <<Digits[n + 1]>>
  ELSE toString(n \div Len(Digits)) \o <<Digits[(n % Len(Digits)) + 1]>>

RECURSIVE LeadingDigits(_, _, _)
LeadingDigits(s, i, acc) ==
  IF i > Len(s) \/ ~IsDigit(s[i]) THEN acc
  ELSE LeadingDigits(s, i + 1, acc * Len(Digits) + DigitValue(s[i]))

parseInt(s) ==
  LET signed == s # <<>> /\ s[1] \in {"-", "+"}
      first == IF signed THEN 2 ELSE 1
  IN IF first > Len(s) \/ ~IsDigit(s[first]) THEN [isNaN |-> TRUE, n |-> 0]
     ELSE [isNaN |-> FALSE,
           n |-> (IF signed /\ s[1] = "-" THEN -1 ELSE 1) * LeadingDigits(s, first, 0)]

\* window.localStorage: absent (no window, or no localStorage on it), or
\* present with getItem/setItem that work or that throw; an item is absent
\* or a string.  uncaught records an exception that left a handler.
NoItem == [present |-> FALSE, text |-> <<>>]
Item(text) == [present |-> TRUE, text |-> text]

EmptyStorage ==
  [available |-> TRUE, failing |-> FALSE, uncaught |-> FALSE,
   items |-> [highScore |-> NoItem, reachTopBest |-> NoItem]]

getItem(st, key) ==
  IF st.failing THEN [thrown |-> TRUE, value |-> NoItem]
  ELSE [thrown |-> FALSE, value |-> st.items[key]]

setItem(st, key, text) ==
  IF st.failing THEN [thrown |-> TRUE, st |-> st]
  ELSE [thrown |-> FALSE, st |-> [st EXCEPT !.items[key] = Item(text)]]

\* the functions below return their value with the exception they let out
loadHighScore(st) ==
  IF ~st.available THEN [thrown |-> FALSE, value |-> 0]
  ELSE LET stored == getItem(st, "highScore")
           parsed == parseInt(stored.value.text)
       IN IF stored.thrown THEN [thrown |-> FALSE, value |-> 0]
          ELSE IF ~stored.value.present THEN [thrown |-> FALSE, value |-> 0]
          ELSE [thrown |-> FALSE,
                value |-> IF parsed.isNaN THEN 0 ELSE Max(0, parsed.n)]

\* (variant: without the try/catch around setItem)
saveHighScoreUncaught(st, score) ==
  IF ~st.available THEN [thrown |-> FALSE, st |-> st]
  ELSE setItem(st, "highScore", toString(score))

saveHighScore(st, score) ==
  IF ~st.available THEN [thrown |-> FALSE, st |-> st]
  ELSE LET r == setItem(st, "highScore", toString(score))
       IN IF r.thrown THEN [thrown |-> FALSE, st |-> st] ELSE r

loadReachTopBest(st) ==
  IF ~st.available THEN [thrown |-> FALSE, value |-> Null]
  ELSE LET stored == getItem(st, "reachTopBest")
           parsed == parseInt(stored.value.text)
       IN IF stored.thrown THEN [thrown |-> FALSE, value |-> Null]
          ELSE IF ~stored.value.present THEN [thrown |-> FALSE, value |-> Null]
          ELSE [thrown |-> FALSE,
                value |-> IF parsed.isNaN \/ parsed.n <= 0 THEN Null ELSE parsed.n]

saveReachTopBest(st, catCount) ==
  IF ~st.available THEN [thrown |-> FALSE, st |-> st]
  ELSE LET r == setItem(st, "reachTopBest", toString(catCount))
       IN IF r.thrown THEN [thrown |-> FALSE, st |-> st] ELSE r

createScoreStateFrom(st) ==
  [score |-> 0, highScore |-> loadHighScore(st).value, showingPerfect |-> FALSE,
   perfectDisplayTime |-> 0, reachTopBest |-> loadReachTopBest(st).value]

\* the page is loaded with nothing stored
createScoreState == createScoreStateFrom(EmptyStorage)

\* the storage of a session that has saved the high score and the best run
\* of scoreState
StorageHolding(scoreState) ==
  [EmptyStorage EXCEPT
     !.items.highScore = IF scoreState.highScore > 0
                         THEN Item(toString(scoreState.highScore)) ELSE NoItem,
     !.items.reachTopBest = IF scoreState.reachTopBest # Null
                            THEN Item(toString(scoreState.reachTopBest)) ELSE NoItem]

\* the save made by updateHighScore and updateReachTopBest when they have
\* changed the value kept in memory
SaveHighScore(m, changed) ==
  IF ~changed THEN m
  ELSE LET r == saveHighScore(m.storage, m.gs.scoreState.highScore)
       IN [m EXCEPT !.storage = [r.st EXCEPT !.uncaught = @ \/ r.thrown]]

SaveReachTopBest(m, changed) ==
  IF ~changed THEN m
  ELSE LET r == saveReachTopBest(m.storage, m.gs.scoreState.reachTopBest)
       IN [m EXCEPT !.storage = [r.st EXCEPT !.uncaught = @ \/ r.thrown]]

\* (variant: the high score follows the score, up or down)
updateHighScoreLatest(scoreState) ==
  [s |-> [scoreState EXCEPT !.highScore = scoreState.score],
   r |-> scoreState.score > scoreState.highScore]

\* returns the score state and the boolean result
updateHighScore(scoreState) ==
  IF scoreState.score > scoreState.highScore
  THEN [s |-> [scoreState EXCEPT !.highScore = scoreState.score], r |-> TRUE]
  ELSE [s |-> scoreState, r |-> FALSE]

\* (variant: the last win replaces the best run)
updateReachTopBestLatest(scoreState, catsUsed) ==
  IF catsUsed <= 0 THEN scoreState
  ELSE [scoreState EXCEPT !.reachTopBest = catsUsed]

updateReachTopBest(scoreState, catsUsed) ==
  IF catsUsed <= 0 THEN scoreState
  ELSE IF scoreState.reachTopBest = Null \/ catsUsed < scoreState.reachTopBest
       THEN [scoreState EXCEPT !.reachTopBest = catsUsed]
       ELSE scoreState

\* (variant: the high score and the best run are reset as well)
resetScoreAll(scoreState) ==
  [scoreState EXCEPT !.score = 0, !.highScore = 0, !.showingPerfect = FALSE,
                     !.perfectDisplayTime = 0, !.reachTopBest = Null]

resetScore(scoreState) ==
  [scoreState EXCEPT !.score = 0, !.showingPerfect = FALSE, !.perfectDisplayTime = 0]

\* ------------------------------------------------------------------ cat.ts
\* A cat entity and its Matter.js body are one object here: the entity's
\* expression and stableTime and their copies in body.catData are always
\* written together (setCatExpression, updateCatStability).
NewBodyId(m) ==
  CHOOSE i \in 1..(Cardinality(DOMAIN m.bodies) + 1) :
    /\ i \notin DOMAIN m.bodies
    /\ \A j \in 1..(i - 1) : j \in DOMAIN m.bodies

\* returns the state with the new cat's id
createCatEntity(m, x, y, gameMode) ==
  LET id == NewBodyId(m)
      body == [x |-> x, y |-> y, speed |-> 0,
               isStatic |-> (gameMode = "classic"),
               expression |-> "neutral", stableTime |-> 0,
               isSticky |-> (gameMode = "classic"),
               settlingStartTime |-> Null, landedOnBody |-> Null]
  IN [m |-> [m EXCEPT !.bodies = @ @@ (id :> body), !.world = @ \cup {id}],
      cat |-> id]

setCatExpression(m, cat, expression) ==
  [m EXCEPT !.bodies[cat].expression = expression]

getCatSpeed(m, cat) == m.bodies[cat].speed

updateCatStability(m, cat, deltaTimeMs) ==
  IF getCatSpeed(m, cat) < STABILITY_VELOCITY_THRESHOLD
  THEN [m EXCEPT !.bodies[cat].stableTime = @ + deltaTimeMs]
  ELSE [m EXCEPT !.bodies[cat].stableTime = 0]

isCatStable(m, cat) == m.bodies[cat].stableTime >= STABILITY_TIME_REQUIRED

isCatSticky(m, cat) == m.bodies[cat].isSticky

\* -------------------------------------------------------------- physics.ts
isBodyOffScreen(body) ==
  \/ body.y > DEATH_ZONE_Y
  \/ body.x < Px(-100)
  \/ body.x > Px(CANVAS_WIDTH + 100)

removeBody(m, body) == [m EXCEPT !.world = @ \ {body}]

\* (variant: the width of the overlap is not clamped at 0)
calculateCatOverlapUnclamped(m, cat, targetCat) ==
  IF targetCat = Null THEN Px(CAT_WIDTH)
  ELSE LET catX == m.bodies[cat].x
           targetX == m.bodies[targetCat].x
           overlapLeft == Max(catX - Px(CAT_WIDTH) \div 2, targetX - Px(CAT_WIDTH) \div 2)
           overlapRight == Min(catX + Px(CAT_WIDTH) \div 2, targetX + Px(CAT_WIDTH) \div 2)
       IN overlapRight - overlapLeft

\* The overlap fraction times the cat width, in 1/100 px: the code divides
\* this width by CAT_WIDTH only to compare the quotient with a threshold.
calculateCatOverlap(m, cat, targetCat) ==
  IF targetCat = Null THEN Px(CAT_WIDTH)
  ELSE LET catX == m.bodies[cat].x
           targetX == m.bodies[targetCat].x
           catLeft == catX - Px(CAT_WIDTH) \div 2
           catRight == catX + Px(CAT_WIDTH) \div 2
           targetLeft == targetX - Px(CAT_WIDTH) \div 2
           targetRight == targetX + Px(CAT_WIDTH) \div 2
           overlapLeft == Max(catLeft, targetLeft)
           overlapRight == Min(catRight, targetRight)
       IN Max(0, overlapRight - overlapLeft)

\* overlapWidth / CAT_WIDTH >= perMille / 1000
OverlapAtLeast(overlapWidth, perMille) ==
  overlapWidth * 1000 >= perMille * Px(CAT_WIDTH)

\* (variant: the overlap has to exceed the threshold)
checkStickyConditionStrict(m, cat) ==
  LET catData == m.bodies[cat]
      landedOnBody == catData.landedOnBody
  IN IF catData.isStatic \/ catData.isSticky THEN FALSE
     ELSE IF landedOnBody = Null THEN FALSE
     ELSE IF catData.speed > STABILITY_VELOCITY_THRESHOLD THEN FALSE
     ELSE IF catData.settlingStartTime = Null THEN FALSE
     ELSE IF m.now - catData.settlingStartTime < STICKY_SETTLE_TIME THEN FALSE
     ELSE LET overlap == IF landedOnBody = GROUND THEN Px(CAT_WIDTH)
                         ELSE calculateCatOverlap(m, cat, landedOnBody)
          IN ~OverlapAtLeast(Px(CAT_WIDTH) - overlap, 1000 - OVERLAP_THRESHOLD)

checkStickyCondition(m, cat) ==
  LET catData == m.bodies[cat]
      landedOnBody == catData.landedOnBody
  IN IF catData.isStatic \/ catData.isSticky THEN FALSE
     ELSE IF landedOnBody = Null THEN FALSE
     ELSE IF catData.speed > STABILITY_VELOCITY_THRESHOLD THEN FALSE
     ELSE IF catData.settlingStartTime = Null THEN FALSE
     ELSE IF m.now - catData.settlingStartTime < STICKY_SETTLE_TIME THEN FALSE
     ELSE LET overlap == IF landedOnBody = GROUND THEN Px(CAT_WIDTH)
                         ELSE calculateCatOverlap(m, cat, landedOnBody)
          IN OverlapAtLeast(overlap, OVERLAP_THRESHOLD)

\* (variant: the flag is set but the body stays dynamic)
makeCatStickyOnly(m, cat) ==
  [m EXCEPT !.bodies[cat].isSticky = TRUE]

makeCatStatic(m, cat) ==
  [m EXCEPT !.bodies[cat].isStatic = TRUE, !.bodies[cat].isSticky = TRUE]

startSettling(m, cat, landedOn) ==
  IF m.bodies[cat].settlingStartTime = Null
  THEN [m EXCEPT !.bodies[cat].settlingStartTime = m.now,
                 !.bodies[cat].landedOnBody = landedOn]
  ELSE m

\* ---------------------------------------------------------------- tower.ts
createTowerState ==
  [cats |-> <<>>, stackedCount |-> 0, isWobbling |-> FALSE,
   hasFallenCat |-> FALSE, difficultyLevel |-> 0]

\* (variant: the tower's fields are reset but the bodies stay in the world)
clearTowerLeaky(m) ==
  [m EXCEPT !.gs.towerState = createTowerState]

\* (variant: one call removes only the newest cat of the tower)
clearTowerNewest(m) ==
  LET cats == m.gs.towerState.cats
  IN IF cats = <<>> THEN [m EXCEPT !.gs.towerState = createTowerState]
     ELSE [m EXCEPT !.world = @ \ {cats[Len(cats)]},
                    !.gs.towerState.cats = SubSeq(cats, 1, Len(cats) - 1)]

\* Matter.Composite.remove for every tower cat, then the tower's fields reset
clearTower(m) ==
  [m EXCEPT !.world = @ \ Range(m.gs.towerState.cats),
            !.gs.towerState = createTowerState]

addCatToTower(m, cat) ==
  setCatExpression([m EXCEPT !.gs.towerState.cats = Append(@, cat)], cat, "surprised")

\* (variant: an offset of exactly the tolerance is not aligned)
isClassicCatAlignedStrict(m, newCat, previousCat) ==
  IF previousCat = Null THEN TRUE
  ELSE LET offset == Abs(m.bodies[newCat].x - m.bodies[previousCat].x)
       IN offset * 1000 < Px(CAT_WIDTH) * ALIGN_TOLERANCE

isClassicCatAligned(m, newCat, previousCat) ==
  IF previousCat = Null THEN TRUE
  ELSE LET offset == Abs(m.bodies[newCat].x - m.bodies[previousCat].x)
       IN offset * 1000 <= Px(CAT_WIDTH) * ALIGN_TOLERANCE

\* (variant: the cat at the bottom of the tower is not moved)
pushTowerDownKeepBottom(m) ==
  [m EXCEPT !.bodies = [b \in DOMAIN @ |->
     IF b \in Range(m.gs.towerState.cats) /\ b # m.gs.towerState.cats[1]
     THEN [@[b] EXCEPT !.y = @ + CAT_HEIGHT]
     ELSE @[b]]]

pushTowerDown(m) ==
  [m EXCEPT !.bodies = [b \in DOMAIN @ |->
     IF b \in Range(m.gs.towerState.cats) THEN [@[b] EXCEPT !.y = @ + CAT_HEIGHT]
     ELSE @[b]]]

\* (variant: the top edge of a cat is compared with the ground)
hasTowerReachedGroundTop(m, groundY) ==
  LET cats == m.gs.towerState.cats
  IN IF Len(cats) = 0 THEN FALSE
     ELSE \E i \in 1..Len(cats) : m.bodies[cats[i]].y - CAT_HEIGHT \div 2 >= groundY

\* (variant: only the cat dropped last is compared with the ground)
hasTowerReachedGroundNewest(m, groundY) ==
  LET cats == m.gs.towerState.cats
  IN IF Len(cats) = 0 THEN FALSE
     ELSE m.bodies[cats[Len(cats)]].y + CAT_HEIGHT \div 2 >= groundY

hasTowerReachedGround(m, groundY) ==
  LET cats == m.gs.towerState.cats
  IN IF Len(cats) = 0 THEN FALSE
     ELSE \E i \in 1..Len(cats) : m.bodies[cats[i]].y + CAT_HEIGHT \div 2 >= groundY

getPreviousCat(m) ==
  LET cats == m.gs.towerState.cats
  IN IF Len(cats) = 0 THEN Null ELSE cats[Len(cats)]

\* indexOf: the first index of e in s, or 0 (JavaScript's -1)
IndexOf(s, e) ==
  IF \E i \in 1..Len(s) : s[i] = e
  THEN CHOOSE i \in 1..Len(s) : s[i] = e /\ \A j \in 1..(i - 1) : s[j] # e
  ELSE 0

\* splice(index, 1)
Splice(s, i) == SubSeq(s, 1, i - 1) \o SubSeq(s, i + 1, Len(s))

\* const index = arr.indexOf(cat); if (index !== -1) arr.splice(index, 1)
RemoveFrom(s, e) == IF IndexOf(s, e) # 0 THEN Splice(s, IndexOf(s, e)) ELSE s

\* (variant: a stable cat is counted in every tick, not only when it has just
\* become stable)
UpdateTowerCatRecount(r, cat, deltaTimeMs) ==
  LET m1 == updateCatStability(r.m, cat, deltaTimeMs)
      nowStable == isCatStable(m1, cat)
      m2 == IF nowStable
            THEN setCatExpression([m1 EXCEPT !.gs.towerState.stackedCount = @ + 1],
                                  cat, "happy")
            ELSE m1
  IN [m |-> m2,
      newlyStableCats |->
        IF nowStable THEN Append(r.newlyStableCats, cat) ELSE r.newlyStableCats,
      difficultyIncreased |-> r.difficultyIncreased,
      anyWobbling |-> r.anyWobbling]

\* the body of updateTower's second loop, for the cat at index i
UpdateTowerCat(r, cat, deltaTimeMs) ==
  LET wasStable == isCatStable(r.m, cat)
      m1 == updateCatStability(r.m, cat, deltaTimeMs)
      nowStable == isCatStable(m1, cat)
      newly == ~wasStable /\ nowStable
      stacked == m1.gs.towerState.stackedCount + 1
      newLevel == checkDifficultyThreshold(stacked, m1.gs.towerState.difficultyLevel,
                                           DIFFICULTY_THRESHOLDS)
      raised == newly /\ newLevel > m1.gs.towerState.difficultyLevel
      m2 == IF newly
            THEN [m1 EXCEPT !.gs.towerState.stackedCount = stacked,
                            !.gs.towerState.difficultyLevel =
                               IF raised THEN newLevel ELSE @]
            ELSE m1
      speed == getCatSpeed(m2, cat)
      m3 == IF nowStable THEN setCatExpression(m2, cat, "happy")
            ELSE IF speed > WOBBLE_VELOCITY_THRESHOLD
                 THEN setCatExpression(m2, cat, "worried")
            ELSE IF m2.bodies[cat].expression # "surprised"
                 THEN setCatExpression(m2, cat, "neutral")
            ELSE m2
  IN [m |-> m3,
      newlyStableCats |->
        IF newly THEN Append(r.newlyStableCats, cat) ELSE r.newlyStableCats,
      difficultyIncreased |-> r.difficultyIncreased \/ raised,
      anyWobbling |-> r.anyWobbling \/ (~nowStable /\ speed > WOBBLE_VELOCITY_THRESHOLD)]

RECURSIVE UpdateTowerLoop(_, _, _, _)
UpdateTowerLoop(r, cats, i, deltaTimeMs) ==
  IF i > Len(cats) THEN r
  ELSE UpdateTowerLoop(UpdateTowerCat(r, cats[i], deltaTimeMs), cats, i + 1, deltaTimeMs)

\* returns the state with {gameOver, newlyStableCats, difficultyIncreased}
updateTower(m, deltaTimeMs) ==
  LET cats == m.gs.towerState.cats
  IN IF \E i \in 1..Len(cats) : isBodyOffScreen(m.bodies[cats[i]])
     THEN [m |-> [m EXCEPT !.gs.towerState.hasFallenCat = TRUE],
           gameOver |-> TRUE, newlyStableCats |-> <<>>, difficultyIncreased |-> FALSE]
     ELSE LET r == UpdateTowerLoop([m |-> m, newlyStableCats |-> <<>>,
                                    difficultyIncreased |-> FALSE,
                                    anyWobbling |-> FALSE],
                                   cats, 1, deltaTimeMs)
          IN [m |-> [r.m EXCEPT !.gs.towerState.isWobbling = r.anyWobbling],
              gameOver |-> FALSE, newlyStableCats |-> r.newlyStableCats,
              difficultyIncreased |-> r.difficultyIncreased]

\* (variant: the cat leaves the tower's array but its body stays in the world)
removeCatFromTowerKeepBody(m, cat) ==
  [m EXCEPT !.gs.towerState.cats = RemoveFrom(@, cat)]

removeCatFromTower(m, cat) ==
  removeBody([m EXCEPT !.gs.towerState.cats = RemoveFrom(@, cat)], cat)

\* the body of updateTowerReachTheTop's loop, for one cat
UpdateReachTheTopCat(r, cat, deltaTimeMs) ==
  IF isBodyOffScreen(r.m.bodies[cat])
  THEN [r EXCEPT !.fallenCats = Append(@, cat)]
  ELSE IF isCatSticky(r.m, cat) \/ r.m.bodies[cat].isStatic
  THEN [r EXCEPT !.stickyCatCount = @ + 1]
  ELSE LET m1 == updateCatStability(r.m, cat, deltaTimeMs)
       IN IF checkStickyCondition(m1, cat)
          THEN [r EXCEPT !.m = setCatExpression(makeCatStatic(m1, cat), cat, "happy"),
                         !.newlyStickyCats = Append(@, cat),
                         !.stickyCatCount = @ + 1]
          ELSE IF getCatSpeed(m1, cat) > WOBBLE_VELOCITY_THRESHOLD
          THEN [r EXCEPT !.m = setCatExpression(m1, cat, "worried")]
          ELSE IF m1.bodies[cat].expression # "surprised"
          THEN [r EXCEPT !.m = setCatExpression(m1, cat, "neutral")]
          ELSE [r EXCEPT !.m = m1]

RECURSIVE UpdateReachTheTopLoop(_, _, _, _)
UpdateReachTheTopLoop(r, cats, i, deltaTimeMs) ==
  IF i > Len(cats) THEN r
  ELSE UpdateReachTheTopLoop(UpdateReachTheTopCat(r, cats[i], deltaTimeMs),
                             cats, i + 1, deltaTimeMs)

RECURSIVE RemoveCatsLoop(_, _, _)
RemoveCatsLoop(m, catsToRemove, i) ==
  IF i > Len(catsToRemove) THEN m
  ELSE RemoveCatsLoop(removeCatFromTower(m, catsToRemove[i]), catsToRemove, i + 1)

\* returns the state with {fallenCats, newlyStickyCats, stickyCatCount}
updateTowerReachTheTop(m, deltaTimeMs) ==
  LET r == UpdateReachTheTopLoop([m |-> m, fallenCats |-> <<>>,
                                  newlyStickyCats |-> <<>>, stickyCatCount |-> 0],
                                 m.gs.towerState.cats, 1, deltaTimeMs)
  IN [r EXCEPT !.m = RemoveCatsLoop(r.m, r.fallenCats, 1)]

\* (variant: every collision restarts the settling timer of the cat)
handleCatLandingRestart(m, cat, landedOn) ==
  [m EXCEPT !.bodies[cat].settlingStartTime = m.now,
            !.bodies[cat].landedOnBody = landedOn]

handleCatLanding(m, cat, landedOn) ==
  IF m.bodies[cat].isStatic \/ isCatSticky(m, cat) THEN m
  ELSE startSettling(m, cat, landedOn)

\* the loop of checkWinCondition from index i on
RECURSIVE WinFrom(_, _, _)
WinFrom(m, cats, i) ==
  IF i > Len(cats) THEN FALSE
  ELSE IF ~isCatSticky(m, cats[i]) /\ ~m.bodies[cats[i]].isStatic
       THEN WinFrom(m, cats, i + 1)
  ELSE IF m.bodies[cats[i]].y - CAT_HEIGHT \div 2 <= WIN_LINE_Y THEN TRUE
  ELSE WinFrom(m, cats, i + 1)

\* (variant: a top edge exactly on the win line does not count)
checkWinConditionBelowLine(m) ==
  \E i \in 1..Len(m.gs.towerState.cats) :
    LET body == m.bodies[m.gs.towerState.cats[i]]
    IN (body.isSticky \/ body.isStatic) /\ body.y - CAT_HEIGHT \div 2 < WIN_LINE_Y

checkWinCondition(m) ==
  IF Len(m.gs.towerState.cats) = 0 THEN FALSE
  ELSE WinFrom(m, m.gs.towerState.cats, 1)

\* ---------------------------------------------------------------- input.ts
enable(m) == [m EXCEPT !.input.enabled = TRUE]

disable(m) == [m EXCEPT !.input.enabled = FALSE]

\* ---------------------------------------------------------------- state.ts
createGameState ==
  [currentState |-> "start", hasStarted |-> FALSE, scoreState |-> createScoreState,
   towerState |-> createTowerState, pendulumState |-> createPendulum,
   beatHighScore |-> FALSE, gameMode |-> "classic", catsDropped |-> 0, catsLost |-> 0]

isStartState(m) == m.gs.currentState = "start"
isModeSelectState(m) == m.gs.currentState = "modeSelect"
isPlayingState(m) == m.gs.currentState = "playing"
isGameOverState(m) == m.gs.currentState = "gameover"
isWinState(m) == m.gs.currentState = "win"

\* the reset shared by transitionToStart, transitionToModeSelect and restartGame
ResetGameData(m) ==
  LET m1 == clearTower(m)
  IN [m1 EXCEPT !.gs.scoreState = resetScore(@),
                !.gs.towerState = createTowerState,
                !.gs.pendulumState = resetPendulum(@),
                !.gs.beatHighScore = FALSE,
                !.gs.catsDropped = 0,
                !.gs.catsLost = 0]

transitionToStart(m) ==
  [enable(ResetGameData(m)) EXCEPT !.gs.currentState = "start"]

\* (variant: the pendulum keeps the time and the speed of the round before)
transitionToModeSelectKeepPendulum(m) ==
  [enable(ResetGameData(m)) EXCEPT !.gs.currentState = "modeSelect",
                                   !.gs.pendulumState = m.gs.pendulumState]

transitionToModeSelect(m) ==
  [enable(ResetGameData(m)) EXCEPT !.gs.currentState = "modeSelect"]

\* Entering playing starts a session: the re-enable callbacks still pending
\* were scheduled by an earlier session (ghost mark, read by no code).
transitionToPlaying(m) ==
  enable([m EXCEPT !.gs.currentState = "playing",
                   !.gs.hasStarted = TRUE,
                   !.timers = {[t EXCEPT !.stale = TRUE] : t \in @}])

\* (variant: the counters of the round before are kept)
selectGameModeKeepCounts(m, mode) ==
  transitionToPlaying([m EXCEPT !.gs.gameMode = mode])

selectGameMode(m, mode) ==
  transitionToPlaying([m EXCEPT !.gs.gameMode = mode,
                                !.gs.catsDropped = 0,
                                !.gs.catsLost = 0])

\* setTimeout(() => inputHandler.enable(), 500)
ScheduleReenable(m) ==
  [m EXCEPT !.timers = @ \cup {[due |-> m.now + REENABLE_DELAY, stale |-> FALSE]}]

transitionToGameOver(m) ==
  LET u == updateHighScore(m.gs.scoreState)
      m1 == [SaveHighScore([m EXCEPT !.gs.scoreState = u.s], u.r)
               EXCEPT !.gs.beatHighScore = u.r,
                      !.gs.currentState = "gameover"]
  IN ScheduleReenable(disable(m1))

transitionToWin(m) ==
  ScheduleReenable(disable([m EXCEPT !.gs.currentState = "win"]))

restartGame(m) == transitionToPlaying(ResetGameData(m))

\* returns the state with the {handled, action} result
handleStateInput(m) ==
  CASE m.gs.currentState = "start" ->
         [m |-> transitionToPlaying(m), handled |-> TRUE, action |-> "start"]
    [] m.gs.currentState = "modeSelect" ->
         [m |-> m, handled |-> FALSE, action |-> "modeSelect"]
    [] m.gs.currentState = "playing" ->
         [m |-> m, handled |-> FALSE, action |-> "drop"]
    [] m.gs.currentState = "gameover" ->
         [m |-> restartGame(m), handled |-> TRUE, action |-> "restart"]
    [] m.gs.currentState = "win" ->
         [m |-> m, handled |-> FALSE, action |-> "playAgain"]
    [] OTHER -> [m |-> m, handled |-> FALSE, action |-> "none"]

canDropCat(m) == m.gs.currentState = "playing"

incrementCatsDropped(m) == [m EXCEPT !.gs.catsDropped = @ + 1]

\* (variant: a lost cat is counted twice)
incrementCatsLostTwice(m) == [m EXCEPT !.gs.catsLost = @ + 2]

incrementCatsLost(m) == [m EXCEPT !.gs.catsLost = @ + 1]

getCatStats(m) ==
  [dropped |-> m.gs.catsDropped, lost |-> m.gs.catsLost,
   stacked |-> m.gs.catsDropped - m.gs.catsLost]

\* ------------------------------------------------- scoring.ts (landings)
\* in 1/100 px; catBelow = Null compares with the ground centre
calculateLandingOffset(m, landingCat, catBelow) ==
  IF catBelow # Null THEN Abs(m.bodies[landingCat].x - m.bodies[catBelow].x)
  ELSE Abs(m.bodies[landingCat].x - Px(CANVAS_WIDTH \div 2))

\* (variant: an offset of exactly the threshold is not perfect)
isPerfectLandingStrict(offset) == offset * 1000 < Px(CAT_WIDTH) * PERFECT_THRESHOLD

isPerfectLanding(offset) == offset * 1000 <= Px(CAT_WIDTH) * PERFECT_THRESHOLD

awardStabilityPoints(m, stableCat, catBelow) ==
  LET s1 == [m.gs.scoreState EXCEPT !.score = @ + POINTS_PER_STACK]
      isPerfect == isPerfectLanding(calculateLandingOffset(m, stableCat, catBelow))
      s2 == IF isPerfect
            THEN [s1 EXCEPT !.score = @ + PERFECT_BONUS,
                            !.showingPerfect = TRUE,
                            !.perfectDisplayTime = PERFECT_DISPLAY_DURATION]
            ELSE s1
      u == updateHighScore(s2)
  IN SaveHighScore([m EXCEPT !.gs.scoreState = u.s], u.r)

updatePerfectDisplay(scoreState, deltaTimeMs) ==
  IF ~scoreState.showingPerfect THEN scoreState
  ELSE IF scoreState.perfectDisplayTime - deltaTimeMs <= 0
       THEN [scoreState EXCEPT !.showingPerfect = FALSE, !.perfectDisplayTime = 0]
       ELSE [scoreState EXCEPT !.perfectDisplayTime = @ - deltaTimeMs]

\* ------------------------------------------ renderer.ts (button bounds)
Rect(x, y, width, height) == [x |-> x, y |-> y, width |-> width, height |-> height]

MODE_BUTTON_BOUNDS ==
  [classic |-> Rect(CANVAS_WIDTH \div 2 - 280, 420, 560, 160),
   reachTheTop |-> Rect(CANVAS_WIDTH \div 2 - 280, 620, 560, 160)]

WIN_SCREEN_BUTTON_BOUNDS ==
  [playAgain |-> Rect(CANVAS_WIDTH \div 2 - 150, CANVAS_HEIGHT \div 2 + 80, 300, 60),
   changeMode |-> Rect(CANVAS_WIDTH \div 2 - 150, CANVAS_HEIGHT \div 2 + 160, 300, 60)]

GAME_OVER_BUTTON_BOUNDS ==
  [restart |-> Rect(CANVAS_WIDTH \div 2 - 150, CANVAS_HEIGHT \div 2 + 100, 300, 55),
   changeMode |-> Rect(CANVAS_WIDTH \div 2 - 150, CANVAS_HEIGHT \div 2 + 170, 300, 55)]

\* --------------------------------------------- input.ts (hit-testing)
isPointInRect(x, y, rect) ==
  /\ x >= rect.x
  /\ x <= rect.x + rect.width
  /\ y >= rect.y
  /\ y <= rect.y + rect.height

\* "null" stands for JavaScript's null in the three results below
checkModeButtonClick(x, y) ==
  IF isPointInRect(x, y, MODE_BUTTON_BOUNDS.classic) THEN "classic"
  ELSE IF isPointInRect(x, y, MODE_BUTTON_BOUNDS.reachTheTop) THEN "reachTheTop"
  ELSE "null"

checkWinScreenButtonClick(x, y) ==
  IF isPointInRect(x, y, WIN_SCREEN_BUTTON_BOUNDS.playAgain) THEN "playAgain"
  ELSE IF isPointInRect(x, y, WIN_SCREEN_BUTTON_BOUNDS.changeMode) THEN "changeMode"
  ELSE "null"

checkGameOverButtonClick(x, y) ==
  IF isPointInRect(x, y, GAME_OVER_BUTTON_BOUNDS.restart) THEN "restart"
  ELSE IF isPointInRect(x, y, GAME_OVER_BUTTON_BOUNDS.changeMode) THEN "changeMode"
  ELSE "null"

\* ------------------------------------------------- useGame.ts (handlers)
\* the canDropCat branch of handleDrop
\* (variant: the push-down branch is taken whatever the mode)
DropCatAnyMode(m) ==
  LET pendulumPos == getCurrentPendulumPosition(m.gs.pendulumState)
      previousCat == getPreviousCat(m)
      c == createCatEntity(Call(m, "createCatEntity"), pendulumPos.x, pendulumPos.y,
                           m.gs.gameMode)
      cat == c.cat
  IN IF isClassicCatAligned(c.m, cat, previousCat)
     THEN LET m1 == pushTowerDown(c.m)
              m2 == setCatExpression(m1, cat, "happy")
              m3 == addCatToTower(m2, cat)
              m4 == [m3 EXCEPT !.catsRef = Append(@, cat)]
              groundSurface == GROUND_Y - GROUND_HEIGHT \div 2
          IN IF hasTowerReachedGround(m4, groundSurface)
             THEN transitionToGameOver(Call(m4, "transitionToGameOver"))
             ELSE m4
     ELSE transitionToGameOver(Call(removeBody(c.m, cat), "transitionToGameOver"))

DropCat(m) ==
  LET pendulumPos == getCurrentPendulumPosition(m.gs.pendulumState)
      previousCat == getPreviousCat(m)
      c == createCatEntity(Call(m, "createCatEntity"), pendulumPos.x, pendulumPos.y,
                           m.gs.gameMode)
      cat == c.cat
  IN IF m.gs.gameMode = "classic"
     THEN IF isClassicCatAligned(c.m, cat, previousCat)
          THEN LET m1 == pushTowerDown(c.m)
                   m2 == setCatExpression(m1, cat, "happy")
                   m3 == addCatToTower(m2, cat)
                   m4 == [m3 EXCEPT !.catsRef = Append(@, cat)]
                   groundSurface == GROUND_Y - GROUND_HEIGHT \div 2
               IN IF hasTowerReachedGround(m4, groundSurface)
                  THEN transitionToGameOver(Call(m4, "transitionToGameOver"))
                  ELSE m4
          ELSE transitionToGameOver(Call(removeBody(c.m, cat), "transitionToGameOver"))
     ELSE LET m1 == setCatExpression(c.m, cat, "surprised")
              m2 == addCatToTower(m1, cat)
              m3 == [m2 EXCEPT !.catsRef = Append(@, cat)]
          IN incrementCatsDropped(m3)

\* (variant: the start input keeps handleStateInput's transition to playing)
handleDropDirect(m) ==
  IF isModeSelectState(m) \/ isWinState(m) \/ isGameOverState(m) THEN m
  ELSE LET stateResult == handleStateInput(Call(m, "handleStateInput"))
       IN IF stateResult.action = "start" THEN stateResult.m
          ELSE IF stateResult.action = "restart"
          THEN [stateResult.m EXCEPT !.catsRef = <<>>]
          ELSE IF canDropCat(stateResult.m) THEN DropCat(stateResult.m)
          ELSE stateResult.m

\* (variant: without the early returns for modeSelect, win and gameover)
handleDropUnguarded(m) ==
  LET stateResult == handleStateInput(Call(m, "handleStateInput"))
  IN IF stateResult.action = "start"
     THEN [transitionToModeSelect(Call(stateResult.m, "transitionToModeSelect"))
             EXCEPT !.refs.modeSelectEnteredTime = m.now]
     ELSE IF stateResult.action = "restart"
     THEN [stateResult.m EXCEPT !.catsRef = <<>>]
     ELSE IF canDropCat(stateResult.m) THEN DropCat(stateResult.m)
     ELSE stateResult.m

handleDrop(m) ==
  IF isModeSelectState(m) \/ isWinState(m) \/ isGameOverState(m) THEN m
  ELSE LET stateResult == handleStateInput(Call(m, "handleStateInput"))
       IN IF stateResult.action = "start"
          THEN [transitionToModeSelect(Call(stateResult.m, "transitionToModeSelect"))
                  EXCEPT !.refs.modeSelectEnteredTime = m.now]
          ELSE IF stateResult.action = "restart"
          THEN [stateResult.m EXCEPT !.catsRef = <<>>]
          ELSE IF canDropCat(stateResult.m) THEN DropCat(stateResult.m)
          ELSE stateResult.m

\* input.ts: attemptDrop with handleDrop as the registered drop callback
attemptDrop(m) ==
  IF ~m.input.enabled THEN m
  ELSE IF m.now - m.input.lastDropTime < DROP_DEBOUNCE_MS THEN m
  ELSE handleDrop(Call([m EXCEPT !.input.lastDropTime = m.now], "handleDrop"))

handleModeButtonClick(m, x, y) ==
  IF ~isModeSelectState(m) THEN m
  ELSE IF m.now - m.refs.modeSelectEnteredTime < CLICK_THROUGH_MS THEN m
  ELSE LET clickedButton == checkModeButtonClick(x, y)
       IN IF clickedButton = "back"
          THEN [transitionToStart(Call(m, "transitionToStart"))
                  EXCEPT !.ui.isInStartState = TRUE]
          ELSE IF clickedButton = "classic" \/ clickedButton = "reachTheTop"
          THEN [selectGameMode(Call(m, "selectGameMode"), clickedButton)
                  EXCEPT !.catsRef = <<>>,
                         !.refs.bestScoreUpdated = FALSE,
                         !.ui.isPlaying = TRUE]
          ELSE m

handleWinScreenButtonClick(m, x, y) ==
  IF ~isWinState(m) THEN m
  ELSE LET clickedButton == checkWinScreenButtonClick(x, y)
       IN IF clickedButton = "playAgain"
          THEN [restartGame(Call(m, "restartGame"))
                  EXCEPT !.catsRef = <<>>, !.refs.bestScoreUpdated = FALSE]
          ELSE IF clickedButton = "changeMode"
          THEN [transitionToModeSelect(Call(m, "transitionToModeSelect"))
                  EXCEPT !.catsRef = <<>>,
                         !.refs.bestScoreUpdated = FALSE,
                         !.refs.modeSelectEnteredTime = m.now]
          ELSE m

handleGameOverButtonClick(m, x, y) ==
  IF ~isGameOverState(m) THEN m
  ELSE LET clickedButton == checkGameOverButtonClick(x, y)
       IN IF clickedButton = "restart"
          THEN [restartGame(Call(m, "restartGame")) EXCEPT !.catsRef = <<>>]
          ELSE IF clickedButton = "changeMode"
          THEN [transitionToModeSelect(Call(m, "transitionToModeSelect"))
                  EXCEPT !.catsRef = <<>>,
                         !.refs.modeSelectEnteredTime = m.now]
          ELSE m

onTapToPlay(m) ==
  IF isStartState(m)
  THEN [transitionToModeSelect(Call(m, "transitionToModeSelect"))
          EXCEPT !.refs.modeSelectEnteredTime = m.now,
                 !.ui.isInStartState = FALSE]
  ELSE m

onBackToMenu(m) ==
  LET m1 == [m EXCEPT !.world = @ \ Range(m.catsRef),
                      !.catsRef = <<>>,
                      !.refs.bestScoreUpdated = FALSE]
  IN [transitionToModeSelect(Call(m1, "transitionToModeSelect"))
        EXCEPT !.refs.modeSelectEnteredTime = m.now,
               !.ui.isPlaying = FALSE]

\* ------------------------------------------------ the physics engine step
\* Matter.Engine.update is outside the program.  Static bodies never move.
\* A dynamic cat body that has not landed yet is in free fall: in one step
\* it either falls on (to just below the win line, or out of the bottom of
\* the screen) or comes to rest in contact with another body of the world,
\* which the engine reports as a collisionStart pair.  A body that has
\* landed stays where it is.  The outcome of a step is one such event for
\* every falling body, in any order.
PhysY == {WIN_LINE_Y + CAT_HEIGHT \div 2 + 1, DEATH_ZONE_Y + 1}
FALL_SPEED == 25

DynamicCats(m) == {c \in m.world \ {GROUND} : ~m.bodies[c].isStatic}

FallingCats(m) ==
  {c \in DynamicCats(m) :
     m.bodies[c].settlingStartTime = Null /\ ~isBodyOffScreen(m.bodies[c])}

BodyEvents(m, c) ==
  {[type |-> "fall", cat |-> c, y |-> y, on |-> Null] :
     y \in {yy \in PhysY : yy > m.bodies[c].y}}
  \cup {[type |-> "land", cat |-> c, y |-> 0, on |-> b] : b \in m.world \ {c}}

RECURSIVE EventSeqs(_, _)
EventSeqs(m, S) ==
  IF S = {} THEN {<<>>}
  ELSE UNION {{<<e>> \o rest : e \in BodyEvents(m, c), rest \in EventSeqs(m, S \ {c})} :
                c \in S}

PhysicsOutcomes(m) == EventSeqs(m, FallingCats(m))

\* the collisionStart listener of useGame, for one pair
CollisionCat(m, cat, bodyA, bodyB) ==
  IF cat = bodyA \/ cat = bodyB
  THEN IF m.gs.gameMode = "reachTheTop"
       THEN handleCatLanding(m, cat, IF cat = bodyA THEN bodyB ELSE bodyA)
       ELSE m
  ELSE m

RECURSIVE CollisionLoop(_, _, _, _)
CollisionLoop(m, i, bodyA, bodyB) ==
  IF i > Len(m.catsRef) THEN m
  ELSE CollisionLoop(CollisionCat(m, m.catsRef[i], bodyA, bodyB), i + 1, bodyA, bodyB)

collisionStart(m, bodyA, bodyB) == CollisionLoop(m, 1, bodyA, bodyB)

BodyEvent(m, e) ==
  IF e.type = "fall"
  THEN [m EXCEPT !.bodies[e.cat].y = e.y, !.bodies[e.cat].speed = FALL_SPEED]
  ELSE collisionStart([m EXCEPT !.bodies[e.cat].speed = 0], e.cat, e.on)

RECURSIVE BodyEventLoop(_, _, _)
BodyEventLoop(m, events, i) ==
  IF i > Len(events) THEN m
  ELSE BodyEventLoop(BodyEvent(m, events[i]), events, i + 1)

\* Matter.Engine.update with outcome events, collisionStart events included
updatePhysics(m, events) == BodyEventLoop(m, events, 1)

\* ------------------------------------------------- useGame.ts (onUpdate)
RECURSIVE TrackLostCats(_, _, _)
TrackLostCats(m, fallenCats, i) ==
  IF i > Len(fallenCats) THEN m
  ELSE TrackLostCats([incrementCatsLost(Call(m, "incrementCatsLost"))
                        EXCEPT !.catsRef = RemoveFrom(@, fallenCats[i])],
                     fallenCats, i + 1)

RECURSIVE AwardLoop(_, _, _)
AwardLoop(m, newlyStableCats, i) ==
  IF i > Len(newlyStableCats) THEN m
  ELSE LET cat == newlyStableCats[i]
           catIndex == IndexOf(m.catsRef, cat)
           catBelow == IF catIndex > 1 THEN m.catsRef[catIndex - 1] ELSE Null
       IN AwardLoop(awardStabilityPoints(Call(m, "awardStabilityPoints"), cat, catBelow),
                    newlyStableCats, i + 1)

\* (variant: the win condition is evaluated before the tower update)
UpdateReachTheTopCheckFirst(m, deltaTimeMs) ==
  LET m0 == Call(m, "checkWinCondition")
      won == checkWinCondition(m0)
      reachTopResult == updateTowerReachTheTop(Call(m0, "updateTowerReachTheTop"), deltaTimeMs)
      m2 == TrackLostCats(reachTopResult.m, reachTopResult.fallenCats, 1)
  IN IF won
     THEN LET m3 == IF ~m2.refs.bestScoreUpdated
                    THEN LET s == updateReachTopBest(m2.gs.scoreState, m2.gs.catsDropped)
                         IN SaveReachTopBest(
                              [m2 EXCEPT !.gs.scoreState = s,
                                         !.refs.bestScoreUpdated = TRUE],
                              s.reachTopBest # m2.gs.scoreState.reachTopBest)
                    ELSE m2
          IN [transitionToWin(Call(m3, "transitionToWin")) EXCEPT !.ui.isPlaying = FALSE]
     ELSE m2

\* the reachTheTop branch of the playing tick
UpdateReachTheTop(m, deltaTimeMs) ==
  LET reachTopResult == updateTowerReachTheTop(Call(m, "updateTowerReachTheTop"), deltaTimeMs)
      m1 == TrackLostCats(reachTopResult.m, reachTopResult.fallenCats, 1)
      m2 == Call(m1, "checkWinCondition")
  IN IF checkWinCondition(m2)
     THEN LET m3 == IF ~m2.refs.bestScoreUpdated
                    THEN LET s == updateReachTopBest(m2.gs.scoreState, m2.gs.catsDropped)
                         IN SaveReachTopBest(
                              [m2 EXCEPT !.gs.scoreState = s,
                                         !.refs.bestScoreUpdated = TRUE],
                              s.reachTopBest # m2.gs.scoreState.reachTopBest)
                    ELSE m2
          IN [transitionToWin(Call(m3, "transitionToWin")) EXCEPT !.ui.isPlaying = FALSE]
     ELSE m2

\* the classic branch of the playing tick
UpdateClassic(m, deltaTimeMs) ==
  LET towerResult == updateTower(Call(m, "updateTower"), deltaTimeMs)
      m1 == IF towerResult.gameOver
            THEN [transitionToGameOver(Call(towerResult.m, "transitionToGameOver"))
                    EXCEPT !.ui.isPlaying = FALSE]
            ELSE towerResult.m
      m2 == AwardLoop(m1, towerResult.newlyStableCats, 1)
      m3 == IF towerResult.difficultyIncreased
            THEN [Call(m2, "increasePendulumDifficulty") EXCEPT !.gs.pendulumState =
                    increasePendulumDifficulty(@, m2.gs.towerState.difficultyLevel)]
            ELSE m2
  IN [m3 EXCEPT !.gs.scoreState = updatePerfectDisplay(@, deltaTimeMs)]

\* (variant: the pendulum is advanced after the tower update and scoring)
onUpdateTowerFirst(m, deltaTimeMs, ev) ==
  IF isStartState(m) \/ isModeSelectState(m) THEN m
  ELSE IF isPlayingState(m)
  THEN LET m1 == updatePhysics(Call(m, "updatePhysics"), ev)
           m2 == IF m1.gs.gameMode = "reachTheTop"
                 THEN UpdateReachTheTop(m1, deltaTimeMs)
                 ELSE UpdateClassic(m1, deltaTimeMs)
       IN [Call(m2, "updatePendulum") EXCEPT !.gs.pendulumState =
             updatePendulum(@, deltaTimeMs)]
  ELSE updatePhysics(Call(m, "updatePhysics"), ev)

\* (variant: the round is updated in gameover and win as it is in playing)
onUpdateAnyState(m, deltaTimeMs, ev) ==
  IF isStartState(m) \/ isModeSelectState(m) THEN m
  ELSE LET m1 == updatePhysics(Call(m, "updatePhysics"), ev)
           m2 == [Call(m1, "updatePendulum") EXCEPT !.gs.pendulumState =
                    updatePendulum(@, deltaTimeMs)]
       IN IF m2.gs.gameMode = "reachTheTop"
          THEN UpdateReachTheTop(m2, deltaTimeMs)
          ELSE UpdateClassic(m2, deltaTimeMs)

onUpdate(m, deltaTimeMs, ev) ==
  IF isStartState(m) \/ isModeSelectState(m) THEN m
  ELSE IF isPlayingState(m)
  THEN LET m1 == updatePhysics(Call(m, "updatePhysics"), ev)
           m2 == [Call(m1, "updatePendulum") EXCEPT !.gs.pendulumState =
                    updatePendulum(@, deltaTimeMs)]
       IN IF m2.gs.gameMode = "reachTheTop"
          THEN UpdateReachTheTop(m2, deltaTimeMs)
          ELSE UpdateClassic(m2, deltaTimeMs)
  ELSE updatePhysics(Call(m, "updatePhysics"), ev)

\* useGameLoop: deltaTime = Math.min((timestamp - lastTime) / 1000, 0.1), in ms
LoopDelta(gap) == Min(gap, LOOP_DELTA_CAP)

\* ------------------------------------------------------ garbage collection
\* A body is kept while the world, the tower, catsRef or the landedOnBody of
\* a kept body refers to it.
RECURSIVE Reach(_, _)
Reach(m, S) ==
  LET T == S \cup ({m.bodies[c].landedOnBody : c \in S} \ {Null, GROUND})
  IN IF T = S THEN S ELSE Reach(m, T)

Live(m) ==
  Reach(m, (m.world \ {GROUND}) \cup Range(m.gs.towerState.cats) \cup Range(m.catsRef))

Collect(m) == [m EXCEPT !.bodies = [b \in Live(m) |-> m.bodies[b]]]

\* ------------------------------------------------- history of the round
\* A round starts in restartGame and in selectGameMode.  The high score at
\* the start of a round that is found in progress: awardStabilityPoints
\* raises highScore to the score, so a high score above the score is the one
\* the round started with, and a high score equal to the score is taken to
\* have been made in this round, starting from none.
RoundStarts == {"restartGame", "selectGameMode"}

StartHighScore(scoreState) ==
  IF scoreState.highScore > scoreState.score THEN scoreState.highScore ELSE 0

\* ------------------------------------------------------------ the machine
\* The page after mount: createGameState(), the physics world with its
\* ground, the input handler attached to the canvas, the first screen shown.
Init ==
  /\ gameState = createGameState
  /\ world = {GROUND}
  /\ bodies = [b \in {} |-> 0]
  /\ catsRef = <<>>
  /\ inputState = [enabled |-> TRUE, lastDropTime |-> 0]
  /\ timers = {}
  /\ refs = [bestScoreUpdated |-> FALSE, modeSelectEnteredTime |-> 0]
  /\ ui = [isInStartState |-> TRUE, isPlaying |-> FALSE]
  /\ now = Epoch
  /\ storage = EmptyStorage
  /\ roundHighScore = StartHighScore(gameState.scoreState)
  /\ trace = <<>>

\* A handler starts with an empty call trace and ends by storing its state;
\* the trace kept is that of the last handler that called into the game.
Begin == [Cur EXCEPT !.trace = <<>>]

Commit(m) ==
  LET c == Collect(m)
  IN /\ gameState' = c.gs
     /\ world' = c.world
     /\ bodies' = c.bodies
     /\ catsRef' = c.catsRef
     /\ inputState' = c.input
     /\ timers' = c.timers
     /\ refs' = c.refs
     /\ ui' = c.ui
     /\ now' = c.now
     /\ storage' = c.storage
     /\ trace' = IF c.trace = <<>> THEN trace ELSE c.trace
     /\ roundHighScore' = IF \E i \in 1..Len(c.trace) : c.trace[i] \in RoundStarts
                          THEN c.gs.scoreState.highScore ELSE roundHighScore

\* the next drop input would drop more than MaxDrops cats in this round
\* (the cats on the screen and the cats lost)
DropCapped ==
  /\ inputState.enabled
  /\ now - inputState.lastDropTime >= DROP_DEBOUNCE_MS
  /\ gameState.currentState = "playing"
  /\ Len(catsRef) + gameState.catsLost >= MaxDrops

\* canvas points pressed by the player: inside the classic mode button;
\* inside the reachTheTop, play-again and restart buttons; inside both
\* change-mode buttons
ClickPoints == {<<360, 500>>, <<360, 750>>, <<360, 830>>}

\* the "Tap to Play" button of the animated start screen
TapToPlay ==
  /\ ui.isInStartState
  /\ Commit(onTapToPlay(Begin))

\* the header's back button, rendered while isPlaying
BackToMenu ==
  /\ ui.isPlaying
  /\ Commit(onBackToMenu(Begin))

\* keydown of the space bar on the document
KeySpace ==
  /\ ~DropCapped
  /\ Commit(attemptDrop(Begin))

\* mousedown on the canvas (hidden while isInStartState): the listeners run
\* in the order they were attached
PointerDown ==
  /\ ~ui.isInStartState
  /\ ~DropCapped
  /\ \E p \in ClickPoints :
       Commit(handleGameOverButtonClick(
                handleWinScreenButtonClick(
                  handleModeButtonClick(
                    attemptDrop(Begin), p[1], p[2]), p[1], p[2]),
                p[1], p[2]))

\* an animation frame, FrameGap ms after the previous one; callbacks that
\* are due run before the clock moves on
Tick ==
  /\ now + FrameGap <= Epoch + MaxNow
  /\ \A t \in timers : t.due > now
  /\ \E ev \in PhysicsOutcomes(Cur) :
       Commit(onUpdate([Call(Begin, "onUpdate") EXCEPT !.now = now + FrameGap],
                       LoopDelta(FrameGap), ev))

\* a deferred inputHandler.enable() of transitionToGameOver/transitionToWin
TimerFire ==
  \E t \in timers :
    /\ t.due <= now
    /\ Commit([enable(Call(Begin, "enable")) EXCEPT !.timers = @ \ {t}])

Next ==
  \/ TapToPlay
  \/ BackToMenu
  \/ KeySpace
  \/ PointerDown
  \/ Tick
  \/ TimerFire

Spec == Init /\ [][Next]_vars

\* ------------------------------------------------- rounds in mid-flight
\* The frame times and the body positions of a real round are arbitrary; the
\* rounds below are taken up one frame before a threshold is met, with the
\* values on either side of the threshold.
MidBody(x, y, speed, fixed, expression, stableTime, start, on) ==
  [x |-> x, y |-> y, speed |-> speed, isStatic |-> fixed,
   expression |-> expression, stableTime |-> stableTime, isSticky |-> fixed,
   settlingStartTime |-> start, landedOnBody |-> on]

MidGame(mode, cats, dropped, stacked, score, highScore, perfectTime, time) ==
  [createGameState EXCEPT
     !.currentState = "playing", !.hasStarted = TRUE, !.gameMode = mode,
     !.catsDropped = dropped,
     !.towerState.cats = cats, !.towerState.stackedCount = stacked,
     !.scoreState.score = score, !.scoreState.highScore = highScore,
     !.scoreState.showingPerfect = (perfectTime > 0),
     !.scoreState.perfectDisplayTime = perfectTime,
     !.pendulumState.accumulatedTime = <<time, 1>>]

\* the horizontal offsets of an overlap of exactly 0.55 and of 0.549, the top
\* edges on and one pixel below the win line, the speeds around the stability
\* threshold, and the settling times of 300 ms and 299 ms at the next frame
MidOffsets == {(Px(CAT_WIDTH) * (1000 - OVERLAP_THRESHOLD)) \div 1000,
               (Px(CAT_WIDTH) * (1000 - OVERLAP_THRESHOLD + 1)) \div 1000}
MidCentres == {WIN_LINE_Y + CAT_HEIGHT \div 2, WIN_LINE_Y + CAT_HEIGHT \div 2 + 1}
MidSpeeds == {STABILITY_VELOCITY_THRESHOLD - 1, STABILITY_VELOCITY_THRESHOLD,
              STABILITY_VELOCITY_THRESHOLD + 1}
MidStarts == {Epoch + FrameGap - STICKY_SETTLE_TIME,
              Epoch + FrameGap - STICKY_SETTLE_TIME + 1}

\* a reachTheTop round: a sticky cat resting on the ground (withBase) and a
\* cat that has landed, on that cat or on the ground, and is settling
ReachTheTopRound(withBase, onBase, dx, y, speed, start) ==
  LET c == IF withBase THEN 2 ELSE 1
      settling == MidBody(Px(CANVAS_WIDTH \div 2) + dx, y, speed, FALSE, "surprised",
                          IF speed < STABILITY_VELOCITY_THRESHOLD
                          THEN LoopDelta(FrameGap) ELSE 0,
                          start, IF onBase THEN 1 ELSE GROUND)
      base == MidBody(Px(CANVAS_WIDTH \div 2), y + CAT_HEIGHT, 0, TRUE, "happy",
                      STICKY_SETTLE_TIME, Epoch - 2 * STICKY_SETTLE_TIME, GROUND)
      cats == IF withBase THEN <<1, 2>> ELSE <<1>>
  IN [gs |-> MidGame("reachTheTop", cats, c, 0, 0, 0, 0, 10 * PENDULUM_DELTA_CAP),
      bodies |-> IF withBase THEN (1 :> base) @@ (2 :> settling) ELSE (1 :> settling),
      cats |-> cats]

\* a classic round with as many cats as the first difficulty threshold, each
\* dropped half a second after the one below it; all but the last are stable
\* and were perfect landings, the last is one or two frames short of the
\* stability time
ClassicCats == DIFFICULTY_THRESHOLDS[1]
ClassicDropGap == 5 * DROP_DEBOUNCE_MS

ClassicRound(dx, highScore, short) ==
  LET stable5 == STABILITY_TIME_REQUIRED - short * LoopDelta(FrameGap)
      body(i) == MidBody(Px(CANVAS_WIDTH \div 2) + (IF i = ClassicCats THEN dx ELSE 0),
                         PENDULUM_Y + CAT_HEIGHT * (ClassicCats - i), 0, TRUE,
                         IF i = ClassicCats THEN "surprised" ELSE "happy",
                         stable5 + ClassicDropGap * (ClassicCats - i), Null, Null)
      cats == [i \in 1..ClassicCats |-> i]
      score == (ClassicCats - 1) * (POINTS_PER_STACK + PERFECT_BONUS)
  IN [gs |-> MidGame("classic", cats, 0, ClassicCats - 1, score,
                     Max(score, highScore),
                     PERFECT_DISPLAY_DURATION - (stable5 + ClassicDropGap
                                                 - STABILITY_TIME_REQUIRED),
                     60 * PENDULUM_DELTA_CAP),
      bodies |-> [i \in 1..ClassicCats |-> body(i)],
      cats |-> cats]

\* the landing offsets on and beyond the perfect threshold, and a high score
\* of an earlier round
ClassicOffsets == {0, (Px(CAT_WIDTH) * PERFECT_THRESHOLD) \div 1000,
                   (Px(CAT_WIDTH) * PERFECT_THRESHOLD) \div 1000 + 1}
ClassicHighScores == {0, 20}

MidRounds ==
  {ReachTheTopRound(b[1], b[2], dx, y, speed, start) :
     b \in {<<TRUE, TRUE>>, <<TRUE, FALSE>>, <<FALSE, FALSE>>},
     dx \in MidOffsets, y \in MidCentres, speed \in MidSpeeds, start \in MidStarts}
  \cup {ClassicRound(dx, h, short) : dx \in ClassicOffsets, h \in ClassicHighScores,
                                     short \in {1, 2}}
  \cup {[gs |-> MidGame(mode, <<>>, 0, 0, 0, 0, 0, 0), bodies |-> <<>>, cats |-> <<>>] :
          mode \in {"classic", "reachTheTop"}}

InitMid ==
  \E r \in MidRounds :
    /\ gameState = r.gs
    /\ world = {GROUND} \cup Range(r.cats)
    /\ bodies = r.bodies
    /\ catsRef = r.cats
    /\ inputState = [enabled |-> TRUE, lastDropTime |-> Epoch - ClassicDropGap]
    /\ timers = {}
    /\ refs = [bestScoreUpdated |-> FALSE, modeSelectEnteredTime |-> 0]
    /\ ui = [isInStartState |-> FALSE, isPlaying |-> TRUE]
    /\ now = Epoch
    /\ storage = StorageHolding(gameState.scoreState)
    /\ roundHighScore = StartHighScore(gameState.scoreState)
    /\ trace = <<>>

NextMid == Tick \/ TimerFire

SpecMid == InitMid /\ [][NextMid]_vars

\* ------------------------------------------------- restartGame on its own
\* restartGame(gameState, physics, inputHandler) applied to game states of
\* every currentState and mode, with a tower of up to two cats.
RestartTowers == {<<>>, <<1>>, <<1, 2>>}
RestartScores == {<<0, 0>>, <<7, 7>>, <<7, 20>>}
RestartBests == {Null, 4}

RestartInput(state, mode, cats, score, best, lost, level, fallen, beat) ==
  [createGameState EXCEPT
     !.currentState = state, !.hasStarted = (state # "start"), !.gameMode = mode,
     !.catsDropped = Len(cats) + lost, !.catsLost = lost,
     !.beatHighScore = beat,
     !.towerState.cats = cats, !.towerState.hasFallenCat = fallen,
     !.towerState.stackedCount = IF level = 0 THEN 0 ELSE DIFFICULTY_THRESHOLDS[level],
     !.towerState.difficultyLevel = level,
     !.scoreState.score = score[1], !.scoreState.highScore = score[2],
     !.scoreState.reachTopBest = best,
     !.pendulumState.difficultyLevel = level,
     !.pendulumState.speedMultiplier = RatPow(<<SPEED_NUM, SPEED_DEN>>, level),
     !.pendulumState.accumulatedTime = <<20 * PENDULUM_DELTA_CAP, 1>>]

InitRestart ==
  \E state \in {"start", "modeSelect", "playing", "gameover", "win"},
     mode \in {"classic", "reachTheTop"}, cats \in RestartTowers,
     score \in RestartScores, best \in RestartBests, lost \in {0, 1},
     level \in {0, 1}, fallen \in BOOLEAN, beat \in BOOLEAN :
    /\ gameState = RestartInput(state, mode, cats, score, best, lost, level, fallen, beat)
    /\ world = {GROUND} \cup Range(cats)
    /\ bodies = [i \in Range(cats) |->
                   MidBody(Px(CANVAS_WIDTH \div 2), GROUND_Y - CAT_HEIGHT * i, 0,
                           mode = "classic", "neutral", 0, Null, Null)]
    /\ catsRef = cats
    /\ inputState = [enabled |-> state \notin {"gameover", "win"},
                     lastDropTime |-> Epoch - ClassicDropGap]
    /\ timers = IF state \in {"gameover", "win"}
                THEN {[due |-> Epoch + REENABLE_DELAY, stale |-> FALSE]} ELSE {}
    /\ refs = [bestScoreUpdated |-> (state = "win"), modeSelectEnteredTime |-> 0]
    /\ ui = [isInStartState |-> (state = "start"), isPlaying |-> (state = "playing")]
    /\ now = Epoch
    /\ storage = StorageHolding(gameState.scoreState)
    /\ roundHighScore = StartHighScore(gameState.scoreState)
    /\ trace = <<>>

RestartGame == Commit(restartGame(Call(Begin, "restartGame")))

NextRestart == RestartGame

SpecRestart == InitRestart /\ [][NextRestart]_vars

\* ------------------------------------------ the cleanup functions on their own
\* restartGame, transitionToModeSelect and clearTower applied, in any order
\* and any number of times, to game states of every currentState and mode.
TransitionToModeSelect ==
  Commit(transitionToModeSelect(Call(Begin, "transitionToModeSelect")))

ClearTower == Commit(clearTower(Call(Begin, "clearTower")))

NextCleanup == RestartGame \/ TransitionToModeSelect \/ ClearTower

SpecCleanup == InitRestart /\ [][NextCleanup]_vars

\* --------------------------------------------- classic rounds at a drop
\* The drop handler applied to classic rounds of every height up to the
\* ground: the handler runs once, the next input being debounced.
\* A classic round of n cats stacked in one column that lies dx to the side
\* of the pendulum, so that the next drop lands with the offset |dx|; the n
\* cats are stable and scored, but for the last one when it is still `short`
\* frames away from the stability time.
DropTowers == {0, 1, 2, 3, 17, 18, 19}
DropOffsets == {0, (Px(CAT_WIDTH) * ALIGN_TOLERANCE) \div 1000,
                (Px(CAT_WIDTH) * ALIGN_TOLERANCE) \div 1000 + 1,
                -((Px(CAT_WIDTH) * ALIGN_TOLERANCE) \div 1000),
                -((Px(CAT_WIDTH) * ALIGN_TOLERANCE) \div 1000) - 1}

DropRound(n, dx, short) ==
  LET stacked == IF short = 0 THEN n ELSE n - 1
      level == checkDifficultyThreshold(stacked, 0, DIFFICULTY_THRESHOLDS)
      pendulum == [speedMultiplier |-> RatPow(<<SPEED_NUM, SPEED_DEN>>, level),
                   difficultyLevel |-> level,
                   accumulatedTime |-> <<60 * PENDULUM_DELTA_CAP, 1>>]
      column == getCurrentPendulumPosition(pendulum).x + dx
      last == STABILITY_TIME_REQUIRED - short * LoopDelta(FrameGap)
      body(i) == MidBody(column, PENDULUM_Y + CAT_HEIGHT * (n - i), 0, TRUE,
                         IF i = n /\ short > 0 THEN "surprised" ELSE "happy",
                         last + ClassicDropGap * (n - i), Null, Null)
      first == IF isPerfectLanding(Abs(column - Px(CANVAS_WIDTH \div 2)))
               THEN POINTS_PER_STACK + PERFECT_BONUS ELSE POINTS_PER_STACK
      score == IF stacked = 0 THEN 0
               ELSE first + (stacked - 1) * (POINTS_PER_STACK + PERFECT_BONUS)
      shown == IF stacked = 0 \/ (stacked = 1 /\ first = POINTS_PER_STACK) THEN 0
               ELSE Max(0, PERFECT_DISPLAY_DURATION
                           - (last + ClassicDropGap * (n - stacked)
                              - STABILITY_TIME_REQUIRED))
      cats == [i \in 1..n |-> i]
  IN [gs |-> [MidGame("classic", cats, 0, stacked, score, score, shown, 0)
                EXCEPT !.pendulumState = pendulum,
                       !.towerState.difficultyLevel = level],
      bodies |-> [i \in 1..n |-> body(i)],
      cats |-> cats]

DropRounds ==
  {DropRound(n, dx, short) : n \in DropTowers, dx \in DropOffsets, short \in {0, 1}}

InitDrop ==
  \E n \in DropTowers, dx \in DropOffsets, short \in {0, 1} :
    /\ short <= n
    /\ LET r == DropRound(n, dx, short)
       IN /\ gameState = r.gs
          /\ world = {GROUND} \cup Range(r.cats)
          /\ bodies = r.bodies
          /\ catsRef = r.cats
    /\ inputState = [enabled |-> TRUE, lastDropTime |-> Epoch - ClassicDropGap]
    /\ timers = {}
    /\ refs = [bestScoreUpdated |-> FALSE, modeSelectEnteredTime |-> 0]
    /\ ui = [isInStartState |-> FALSE, isPlaying |-> TRUE]
    /\ now = Epoch
    /\ storage = StorageHolding(gameState.scoreState)
    /\ roundHighScore = StartHighScore(gameState.scoreState)
    /\ trace = <<>>

\* keydown of the space bar, however many cats the round has
DropKey == Commit(attemptDrop(Begin))

NextDrop == DropKey

SpecDrop == InitDrop /\ [][NextDrop]_vars

\* ------------------------------------------- rounds about to score or win
\* Rounds taken up RoundFrames frames before the last frame of a run, one
\* frame before a cat is awarded its points or wins the round, under every
\* operation of the page.
RoundFrames == 6
RoundStart == Epoch + MaxNow - RoundFrames * FrameGap

\* the landing offsets on either side of the perfect threshold, to the right
\* and to the left, and the largest offset of an aligned drop
ScoreOffsets ==
  LET perfect == (Px(CAT_WIDTH) * PERFECT_THRESHOLD) \div 1000
  IN {0, perfect, perfect + 1, -perfect, -(perfect + 1),
      (Px(CAT_WIDTH) * ALIGN_TOLERANCE) \div 1000}

\* a classic round of one or two cats: the last cat, dx from the cat below
\* it (or from the centre of the ground), is one frame short of the
\* stability time; the cat below it, a quarter of a cat left of the centre,
\* has been awarded one point
ScoreRound(n, dx, highScore) ==
  LET first == Px(CANVAS_WIDTH \div 2) - Px(CAT_WIDTH) \div 4
      reference == IF n = 1 THEN Px(CANVAS_WIDTH \div 2) ELSE first
      body(i) == IF i = n
                 THEN MidBody(reference + dx, PENDULUM_Y, 0, TRUE, "surprised",
                              STABILITY_TIME_REQUIRED - LoopDelta(FrameGap), Null, Null)
                 ELSE MidBody(first, PENDULUM_Y + CAT_HEIGHT, 0, TRUE, "happy",
                              STABILITY_TIME_REQUIRED + ClassicDropGap, Null, Null)
      cats == [i \in 1..n |-> i]
      score == (n - 1) * POINTS_PER_STACK
  IN [gs |-> MidGame("classic", cats, 0, n - 1, score, Max(score, highScore), 0,
                     60 * PENDULUM_DELTA_CAP),
      bodies |-> [i \in 1..n |-> body(i)],
      cats |-> cats]

\* a reachTheTop round whose second cat becomes sticky at the next frame, on
\* or one pixel below the win line, with the best run of earlier wins
WinBests == {Null, 1, 2, 3}

WinRound(y, best) ==
  LET r == ReachTheTopRound(TRUE, TRUE, 0, y, 0,
                            RoundStart + FrameGap - STICKY_SETTLE_TIME)
  IN [r EXCEPT !.gs.scoreState.reachTopBest = best]

InitRound ==
  /\ \E r \in {ScoreRound(n, dx, h) : n \in {1, 2}, dx \in ScoreOffsets,
                                      h \in ClassicHighScores}
           \cup {WinRound(y, best) : y \in MidCentres, best \in WinBests} :
       /\ gameState = r.gs
       /\ world = {GROUND} \cup Range(r.cats)
       /\ bodies = r.bodies
       /\ catsRef = r.cats
  /\ inputState = [enabled |-> TRUE, lastDropTime |-> RoundStart - ClassicDropGap]
  /\ timers = {}
  /\ refs = [bestScoreUpdated |-> FALSE, modeSelectEnteredTime |-> 0]
  /\ ui = [isInStartState |-> FALSE, isPlaying |-> TRUE]
  /\ now = RoundStart
  /\ storage = StorageHolding(gameState.scoreState)
  /\ roundHighScore = StartHighScore(gameState.scoreState)
  /\ trace = <<>>

\* the start screen is not entered within RoundFrames frames
NextRound == BackToMenu \/ KeySpace \/ PointerDown \/ Tick \/ TimerFire

SpecRound == InitRound /\ [][NextRound]_vars

\* ------------------------------------------------ rounds with every storage
\* A page loaded with localStorage absent, throwing or working, and holding
\* nothing, text that is no number, a negative number, zero or a number; the
\* round is taken up one frame before its cat is awarded its points or wins.
\* the last frames of a run
StorageStart == Epoch + MaxNow - (RoundFrames \div 2) * FrameGap

StoredTexts == {<<"x">>, <<"-", "3">>, <<"0">>, <<"1">>, <<"2", "0">>}

Storages ==
  {[EmptyStorage EXCEPT !.available = a, !.failing = f,
                        !.items = [highScore |-> i, reachTopBest |-> i]] :
     a \in BOOLEAN, f \in BOOLEAN, i \in {NoItem} \cup {Item(t) : t \in StoredTexts}}

StorageRound(mode, st) ==
  LET loaded == createScoreStateFrom(st)
      classic == ScoreRound(1, 0, 0)
      reachTheTop == ReachTheTopRound(TRUE, TRUE, 0, WIN_LINE_Y + CAT_HEIGHT \div 2, 0,
                                      StorageStart + FrameGap - STICKY_SETTLE_TIME)
      r == IF mode = "classic" THEN classic ELSE reachTheTop
  IN [r EXCEPT !.gs.scoreState.highScore = loaded.highScore,
               !.gs.scoreState.reachTopBest = loaded.reachTopBest]

InitStorage ==
  /\ \E st \in Storages, mode \in {"classic", "reachTheTop"} :
       LET r == StorageRound(mode, st)
       IN /\ gameState = r.gs
          /\ world = {GROUND} \cup Range(r.cats)
          /\ bodies = r.bodies
          /\ catsRef = r.cats
          /\ storage = st
          /\ roundHighScore = StartHighScore(gameState.scoreState)
  /\ inputState = [enabled |-> TRUE, lastDropTime |-> StorageStart - ClassicDropGap]
  /\ timers = {}
  /\ refs = [bestScoreUpdated |-> FALSE, modeSelectEnteredTime |-> 0]
  /\ ui = [isInStartState |-> FALSE, isPlaying |-> TRUE]
  /\ now = StorageStart
  /\ trace = <<>>

\* no re-enable callback is due within these frames
NextStorage == BackToMenu \/ KeySpace \/ PointerDown \/ Tick

SpecStorage == InitStorage /\ [][NextStorage]_vars

\* ------------------------------------------------- the pendulum on its own
\* updatePendulum and increasePendulumDifficulty applied, in any order, to a
\* pendulum that has swung for up to SwingFrames frames at the base speed,
\* between every two levels up to MaxLevel.
SwingFrames == 12
MaxLevel == 2

InitPendulum ==
  /\ \E k \in 0..SwingFrames :
       gameState = MidGame("classic", <<>>, 0, 0, 0, 0, 0, k * PENDULUM_DELTA_CAP)
  /\ world = {GROUND}
  /\ bodies = [b \in {} |-> 0]
  /\ catsRef = <<>>
  /\ inputState = [enabled |-> TRUE, lastDropTime |-> 0]
  /\ timers = {}
  /\ refs = [bestScoreUpdated |-> FALSE, modeSelectEnteredTime |-> 0]
  /\ ui = [isInStartState |-> FALSE, isPlaying |-> TRUE]
  /\ now = StorageStart
  /\ storage = EmptyStorage
  /\ roundHighScore = StartHighScore(gameState.scoreState)
  /\ trace = <<>>

IncreasePendulumDifficulty ==
  \E newLevel \in 0..MaxLevel :
    Commit([Call(Begin, "increasePendulumDifficulty")
              EXCEPT !.gs.pendulumState = increasePendulumDifficulty(@, newLevel)])

UpdatePendulum ==
  /\ now + FrameGap <= Epoch + MaxNow
  /\ Commit([Call(Begin, "updatePendulum")
               EXCEPT !.now = now + FrameGap,
                      !.gs.pendulumState = updatePendulum(@, LoopDelta(FrameGap))])

NextPendulum == IncreasePendulumDifficulty \/ UpdatePendulum

SpecPendulum == InitPendulum /\ [][NextPendulum]_vars

\* --------------------------------------- classic rounds at a difficulty step
\* Classic rounds whose tower is as high as one of the first two
\* thresholds, the last cat one or two frames short of the stability time,
\* taken up RoundFrames frames before the last frame of a run, under every
\* operation of the page.
LevelTowers == {DIFFICULTY_THRESHOLDS[1], DIFFICULTY_THRESHOLDS[2]}

InitLevel ==
  /\ \E n \in LevelTowers, dx \in DropOffsets, short \in {1, 2} :
       LET r == DropRound(n, dx, short)
       IN /\ gameState = r.gs
          /\ world = {GROUND} \cup Range(r.cats)
          /\ bodies = r.bodies
          /\ catsRef = r.cats
  /\ inputState = [enabled |-> TRUE, lastDropTime |-> RoundStart - ClassicDropGap]
  /\ timers = {}
  /\ refs = [bestScoreUpdated |-> FALSE, modeSelectEnteredTime |-> 0]
  /\ ui = [isInStartState |-> FALSE, isPlaying |-> TRUE]
  /\ now = RoundStart
  /\ storage = StorageHolding(gameState.scoreState)
  /\ roundHighScore = StartHighScore(gameState.scoreState)
  /\ trace = <<>>

\* keydown of the space bar in a classic round, however high its tower
ClassicKey ==
  /\ gameState.gameMode = "classic"
  /\ Commit(attemptDrop(Begin))

NextLevel == BackToMenu \/ ClassicKey \/ KeySpace \/ PointerDown \/ Tick \/ TimerFire

SpecLevel == InitLevel /\ [][NextLevel]_vars

\* ------------------------------------------------------------- properties
LastCall == IF trace = <<>> THEN "none" ELSE trace[Len(trace)]

Called(name) == \E i \in 1..Len(trace) : trace[i] = name

TowerCats == gameState.towerState.cats

IsPlayingTick ==
  /\ gameState.currentState = "playing"
  /\ now' > now

IsReachTheTopTick ==
  /\ gameState.currentState = "playing"
  /\ gameState.gameMode = "reachTheTop"
  /\ now' > now

CallIndex(tr, name) == CHOOSE i \in 1..Len(tr) : tr[i] = name

CallCount(tr, name) == Cardinality({i \in 1..Len(tr) : tr[i] = name})

TopEdge(body) == body.y - CAT_HEIGHT \div 2

\* every call of the set A in the trace tr comes before every call of the set B
Before(tr, A, B) ==
  \A i, j \in 1..Len(tr) : (tr[i] \in A /\ tr[j] \in B) => i < j

\* C1: zero leaked bodies.  In every reachable state the cat bodies of the
\* physics world are exactly the bodies of towerState.cats, the ground is in
\* the world, and after restartGame, transitionToModeSelect or
\* transitionToStart (and so in start and modeSelect) the world holds the
\* ground body and no cat body.
C1_ZeroLeakedBodies ==
  /\ GROUND \in world
  /\ world \ {GROUND} = Range(TowerCats)
  /\ gameState.currentState \in {"start", "modeSelect"} => world = {GROUND}
  /\ LastCall \in {"restartGame", "transitionToModeSelect", "transitionToStart"}
       => world = {GROUND}

\* a classic round that ended with cats in its tower has just been restarted
C1_Witness ==
  /\ LastCall = "restartGame"
  /\ gameState.gameMode = "classic"
  /\ timers # {}
  /\ world = {GROUND}
  /\ TowerCats = <<>>

\* the edges of the state machine as the claim C2 lists them
ClaimedEdges ==
  {<<"start", "modeSelect">>, <<"modeSelect", "playing">>,
   <<"playing", "gameover">>, <<"playing", "win">>,
   <<"gameover", "modeSelect">>, <<"win", "modeSelect">>,
   <<"gameover", "playing">>, <<"win", "playing">>}

\* the back button of the header leaves a round in progress for modeSelect
BackEdges == {<<"playing", "modeSelect">>}

DropVisible(m) ==
  <<m.gs.currentState, m.gs.towerState, m.gs.catsDropped, m.gs.catsLost,
    m.gs.scoreState, m.world, m.bodies, m.catsRef>>

\* C3: the generic drop action only acts while playing.  handleStateInput in
\* modeSelect or win returns handled = false and changes nothing; a drop
\* input in modeSelect, win or gameover (the drop callback, and the input
\* handler in front of it) creates no cat and leaves currentState, tower,
\* counters and score unchanged; canDropCat holds exactly in playing.
C3_DropOnlyWhilePlaying ==
  /\ gameState.currentState \in {"modeSelect", "win"} =>
       /\ ~handleStateInput(Cur).handled
       /\ handleStateInput(Cur).m = Cur
  /\ gameState.currentState \in {"modeSelect", "win", "gameover"} =>
       /\ DropVisible(handleDrop(Cur)) = DropVisible(Cur)
       /\ DropVisible(attemptDrop(Cur)) = DropVisible(Cur)
  /\ canDropCat(Cur) <=> gameState.currentState = "playing"

\* a drop input has just been accepted by the input handler in a modeSelect
\* screen entered earlier, and the screen is still modeSelect
C3_Witness ==
  /\ gameState.currentState = "modeSelect"
  /\ refs.modeSelectEnteredTime < now
  /\ inputState.lastDropTime = now
  /\ world = {GROUND}

\* C4: restartGame, from any state with any tower contents, removes every
\* tower cat body from the physics world, empties the tower, sets score,
\* catsDropped, catsLost, stackedCount and difficultyLevel to 0 and
\* speedMultiplier to 1, clears hasFallenCat and beatHighScore, leaves
\* highScore, reachTopBest and gameMode unchanged, and ends in playing.
C4_RestartResets ==
  [][LastCall' = "restartGame" =>
       /\ world' = world \ Range(TowerCats)
       /\ gameState'.towerState.cats = <<>>
       /\ gameState'.scoreState.score = 0
       /\ gameState'.catsDropped = 0
       /\ gameState'.catsLost = 0
       /\ gameState'.towerState.stackedCount = 0
       /\ gameState'.towerState.difficultyLevel = 0
       /\ gameState'.pendulumState.difficultyLevel = 0
       /\ gameState'.pendulumState.speedMultiplier = <<1, 1>>
       /\ ~gameState'.towerState.hasFallenCat
       /\ ~gameState'.beatHighScore
       /\ gameState'.scoreState.highScore = gameState.scoreState.highScore
       /\ gameState'.scoreState.reachTopBest = gameState.scoreState.reachTopBest
       /\ gameState'.gameMode = gameState.gameMode
       /\ gameState'.currentState = "playing"]_vars

\* restartGame has run on a won reachTheTop round and has kept its high
\* score and its best run
C4_Witness ==
  /\ LastCall = "restartGame"
  /\ gameState.currentState = "playing"
  /\ gameState.gameMode = "reachTheTop"
  /\ refs.bestScoreUpdated
  /\ gameState.scoreState.highScore > 0
  /\ gameState.scoreState.reachTopBest # Null
  /\ gameState.scoreState.score = 0
  /\ world = {GROUND}

\* C5: a re-enable callback scheduled by an earlier session (one that was
\* pending when restartGame or selectGameMode started a new session) never
\* changes the input handler's enabled flag when it runs.
C5_StaleCallbackChangesNothing ==
  [][(\E t \in timers : /\ t.stale
                        /\ t.due <= now
                        /\ timers' = timers \ {t}
                        /\ trace' = <<"enable">>)
       => inputState'.enabled = inputState.enabled]_vars

TowerUpdateCalls == {"updateTower", "updateTowerReachTheTop"}
CheckCalls == {"checkWinCondition", "transitionToGameOver", "transitionToWin"}
ScoreCalls == {"awardStabilityPoints"}

\* C6 as stated: within every playing tick the steps run in the order
\* physics step, tower update, win/loss check, score update, pendulum
\* advance.
C6_PendulumLast ==
  [][IsPlayingTick =>
       /\ Before(trace', {"updatePhysics"}, TowerUpdateCalls)
       /\ Before(trace', TowerUpdateCalls, CheckCalls)
       /\ Before(trace', CheckCalls, ScoreCalls)
       /\ Before(trace', TowerUpdateCalls \cup CheckCalls \cup ScoreCalls,
                 {"updatePendulum"})]_vars

\* C6: within every playing tick the steps run, once each, in the order
\* physics step, pendulum advance, tower update, win/loss check, score
\* update; the pendulum's accumulatedTime is advanced before the tower update
\* and the scoring of that tick, so that a difficulty increase of the tick
\* rescales the accumulatedTime that the tick has already advanced.
C6_PendulumBeforeTower ==
  [][IsPlayingTick =>
       /\ CallCount(trace', "updatePhysics") = 1
       /\ CallCount(trace', "updatePendulum") = 1
       /\ Cardinality({i \in 1..Len(trace') : trace'[i] \in TowerUpdateCalls}) = 1
       /\ Before(trace', {"updatePhysics"}, {"updatePendulum"})
       /\ Before(trace', {"updatePendulum"}, TowerUpdateCalls)
       /\ Before(trace', TowerUpdateCalls, CheckCalls)
       /\ Before(trace', CheckCalls, ScoreCalls)
       /\ LET advanced == updatePendulum(gameState.pendulumState, LoopDelta(FrameGap))
          IN gameState'.pendulumState.accumulatedTime =
               IF CallCount(trace', "increasePendulumDifficulty") = 0
               THEN advanced.accumulatedTime
               ELSE RatMul(advanced.accumulatedTime,
                           RatMul(gameState.pendulumState.speedMultiplier,
                                  RatInv(gameState'.pendulumState.speedMultiplier)))]_vars

\* a classic tick has made a cat stable, scored it and raised the difficulty
C6_Witness ==
  /\ gameState.gameMode = "classic"
  /\ Called("updatePendulum")
  /\ Called("awardStabilityPoints")
  /\ Called("increasePendulumDifficulty")
  /\ gameState.pendulumState.difficultyLevel = 1
  /\ gameState.pendulumState.speedMultiplier = <<SPEED_NUM, SPEED_DEN>>

\* C7: in a Reach-the-Top tick the win condition is evaluated exactly once,
\* after the tower update; a cat that becomes sticky in the tick with its
\* top edge at or above WIN_LINE_Y makes currentState = win in that tick.
C7_WinCheckedAfterTowerUpdate ==
  [][IsReachTheTopTick =>
       /\ CallCount(trace', "checkWinCondition") = 1
       /\ CallCount(trace', "updateTowerReachTheTop") = 1
       /\ CallIndex(trace', "updateTowerReachTheTop") < CallIndex(trace', "checkWinCondition")
       /\ (\E c \in Range(TowerCats) \cap Range(gameState'.towerState.cats) :
             /\ ~bodies[c].isSticky
             /\ bodies'[c].isSticky
             /\ TopEdge(bodies'[c]) <= WIN_LINE_Y)
            => gameState'.currentState = "win"]_vars

\* the tick that made a cat above the line sticky has ended in win
C7_Witness ==
  /\ gameState.currentState = "win"
  /\ Called("updateTowerReachTheTop")
  /\ LastCall = "transitionToWin"
  /\ \E c \in Range(TowerCats) :
       /\ bodies[c].isSticky
       /\ now - bodies[c].settlingStartTime >= STICKY_SETTLE_TIME
       /\ TopEdge(bodies[c]) <= WIN_LINE_Y

\* C8: checkWinCondition(tower) is true if and only if some cat of the tower
\* is sticky or physically static and has centerY - CAT_HEIGHT/2 <=
\* WIN_LINE_Y, the boundary included; it is false for an empty tower and for
\* a tower whose cats are all non-sticky and dynamic, wherever they are.
C8_WinIffFixedCatAtLine ==
  /\ checkWinCondition(Cur) <=>
       \E c \in Range(TowerCats) :
         (bodies[c].isSticky \/ bodies[c].isStatic)
           /\ bodies[c].y - CAT_HEIGHT \div 2 <= WIN_LINE_Y
  /\ TowerCats = <<>> => ~checkWinCondition(Cur)
  /\ (\A c \in Range(TowerCats) : ~bodies[c].isSticky /\ ~bodies[c].isStatic)
       => ~checkWinCondition(Cur)

\* the win condition holds by a sticky cat whose top edge is exactly on the
\* win line, every other cat being below it, and the tick has acted on it
C8_Witness ==
  /\ checkWinCondition(Cur)
  /\ LastCall = "transitionToWin"
  /\ \E c \in Range(TowerCats) : bodies[c].isSticky /\ TopEdge(bodies[c]) = WIN_LINE_Y
  /\ \A c \in Range(TowerCats) : TopEdge(bodies[c]) >= WIN_LINE_Y

\* the three conditions of a sticky landing for the body c of bs at time t
Settled(bs, c, t) ==
  LET b == bs[c]
  IN /\ b.speed <= STABILITY_VELOCITY_THRESHOLD
     /\ b.settlingStartTime # Null
     /\ t - b.settlingStartTime >= STICKY_SETTLE_TIME
     /\ b.landedOnBody # Null
     /\ \/ b.landedOnBody = GROUND
        \/ 1000 * Max(0, Px(CAT_WIDTH) - Abs(b.x - bs[b.landedOnBody].x))
             >= OVERLAP_THRESHOLD * Px(CAT_WIDTH)

\* C9: a non-sticky Reach-the-Top cat becomes sticky in a tick only when its
\* speed is within the stability threshold, its settling timer has run at
\* least 300 ms and its horizontal overlap with the surface it landed on is
\* at least 0.55; the bounds are inclusive, so a cat that meets them exactly
\* sticks, and a cat at 0.549 or at 299 ms does not.
C9_StickyOnlyWhenSettled ==
  [][IsReachTheTopTick =>
       \A c \in Range(TowerCats) \cap Range(gameState'.towerState.cats) :
         (~bodies[c].isSticky /\ ~bodies[c].isStatic)
           => (bodies'[c].isSticky <=> Settled(bodies', c, now'))]_vars

\* a cat has become sticky with an overlap of exactly 0.55, a settling time
\* of exactly 300 ms and a speed exactly at the threshold
C9_Witness ==
  \E c \in Range(TowerCats) :
    /\ bodies[c].isSticky
    /\ bodies[c].landedOnBody \notin {Null, GROUND}
    /\ Abs(bodies[c].x - bodies[bodies[c].landedOnBody].x) * 1000
         = Px(CAT_WIDTH) * (1000 - OVERLAP_THRESHOLD)
    /\ now - bodies[c].settlingStartTime = STICKY_SETTLE_TIME
    /\ bodies[c].speed = STABILITY_VELOCITY_THRESHOLD

\* the cats of the tower that the tick removed
Removed == {c \in Range(TowerCats) : c \notin Range(gameState'.towerState.cats)}

Kept(c) == c \notin Removed

\* C10: in a Reach-the-Top tick every cat found off the playfield is removed
\* from the tower and from the physics world in that tick, catsLost grows by
\* one per removed cat, the remaining cats keep their order, and the round
\* goes on: currentState stays playing unless the tick ends in win.
C10_LostCatsRemoved ==
  [][IsReachTheTopTick =>
       /\ \A c \in Range(gameState'.towerState.cats) : ~isBodyOffScreen(bodies'[c])
       /\ Removed \cap world' = {}
       /\ gameState'.towerState.cats = SelectSeq(TowerCats, Kept)
       /\ gameState'.catsLost = gameState.catsLost + Cardinality(Removed)
       /\ gameState'.currentState \in {"playing", "win"}
       /\ gameState'.currentState = "win" =>
            \E c \in Range(gameState'.towerState.cats) :
              (bodies'[c].isSticky \/ bodies'[c].isStatic)
                /\ TopEdge(bodies'[c]) <= WIN_LINE_Y]_vars

\* a tick has just removed a lost cat and left two cats in the tower
C10_Witness ==
  /\ gameState.currentState = "playing"
  /\ gameState.gameMode = "reachTheTop"
  /\ Called("incrementCatsLost")
  /\ gameState.catsLost >= 1
  /\ Len(TowerCats) >= 2

\* a step in which the drop handler creates a cat in a classic round
IsClassicDrop ==
  /\ gameState.currentState = "playing"
  /\ gameState.gameMode = "classic"
  /\ CallCount(trace', "createCatEntity") = 1

PendulumX == getCurrentPendulumPosition(gameState.pendulumState).x

\* the offset of a drop made now from the cat dropped before it, in 1/100 px
\* (0 for the first cat of a round)
DropOffset ==
  IF TowerCats = <<>> THEN 0
  ELSE Abs(PendulumX - bodies[TowerCats[Len(TowerCats)]].x)

DropAligned == DropOffset * 1000 <= ALIGN_TOLERANCE * Px(CAT_WIDTH)

\* C11: in Classic mode a drop whose X differs from the previous cat's X by
\* more than 0.8 x CAT_WIDTH ends the round at once: the new cat's body is
\* not in the physics world, it is not added to the tower, the cats of the
\* tower are not moved and currentState is gameover after that drop; an
\* offset of exactly 0.8 x CAT_WIDTH, and the first cat of a round, count as
\* aligned, and the cat is added to the tower.
C11_MisalignedDropEndsRound ==
  [][IsClassicDrop =>
       IF DropAligned
       THEN Len(gameState'.towerState.cats) = Len(TowerCats) + 1
       ELSE /\ world' = world
            /\ gameState'.towerState.cats = TowerCats
            /\ \A c \in Range(TowerCats) : bodies'[c] = bodies[c]
            /\ gameState'.currentState = "gameover"]_vars

\* a round has ended by a drop one hundredth of a pixel beyond the tolerance,
\* with its tower well above the ground
C11_Witness ==
  /\ gameState.currentState = "gameover"
  /\ gameState.gameMode = "classic"
  /\ LastCall = "transitionToGameOver"
  /\ Len(TowerCats) = 2
  /\ world = {GROUND} \cup Range(TowerCats)
  /\ DropOffset * 1000 = ALIGN_TOLERANCE * Px(CAT_WIDTH) + 1000

\* C12: in Classic mode every aligned drop moves each cat of the tower down
\* by exactly CAT_HEIGHT with its X unchanged and appends the new cat at the
\* pendulum position; after n aligned drops the i-th dropped cat has
\* centerY = PENDULUM_Y + (n - i) x CAT_HEIGHT, and the tower order is the
\* drop order.
C12_AlignedDropPushesDown ==
  [][(IsClassicDrop /\ DropAligned) =>
       LET cats == gameState'.towerState.cats
           n == Len(cats)
       IN /\ n = Len(TowerCats) + 1
          /\ SubSeq(cats, 1, n - 1) = TowerCats
          /\ cats[n] \notin Range(TowerCats)
          /\ catsRef' = cats
          /\ bodies'[cats[n]].x = PendulumX
          /\ \A c \in Range(TowerCats) :
               /\ bodies'[c].x = bodies[c].x
               /\ bodies'[c].y = bodies[c].y + CAT_HEIGHT
          /\ \A i \in 1..n : bodies'[cats[i]].y = PENDULUM_Y + (n - i) * CAT_HEIGHT]_vars

\* three cats have been dropped one on the other, and not in one column
C12_Witness ==
  /\ gameState.currentState = "playing"
  /\ gameState.gameMode = "classic"
  /\ Called("createCatEntity")
  /\ Len(TowerCats) = 3
  /\ bodies[TowerCats[1]].y = PENDULUM_Y + 2 * CAT_HEIGHT
  /\ bodies[TowerCats[1]].x # bodies[TowerCats[2]].x
  /\ bodies[TowerCats[2]].x # bodies[TowerCats[3]].x

\* the bottom edge of the lowest cat of the tower
LowestBottom(bs, cats) ==
  CHOOSE y \in {bs[c].y + CAT_HEIGHT \div 2 : c \in Range(cats)} :
    \A c \in Range(cats) : bs[c].y + CAT_HEIGHT \div 2 <= y

C13_StackedCountIsAlignedDrops ==
  (gameState.gameMode = "classic" /\ gameState.currentState \in {"playing", "gameover"})
    => gameState.towerState.stackedCount = Len(TowerCats)

\* C15: stackedCount <= cats.length in every reachable state of both modes,
\* across drops, ticks, lost-cat removal, restart and mode selection.
C15_StackedCountAtMostCats ==
  gameState.towerState.stackedCount <= Len(TowerCats)

\* a tick has counted the last cat of a classic tower as stable
C15_Witness ==
  /\ gameState.gameMode = "classic"
  /\ Called("awardStabilityPoints")
  /\ TowerCats # <<>>
  /\ gameState.towerState.stackedCount = Len(TowerCats)
  /\ \A c \in Range(TowerCats) : isCatStable(Cur, c)

\* C16: in every reachable state a cat whose isSticky flag is true has a
\* physically static body and its expression is not worried, in
\* Reach-the-Top and in Classic, where cats are sticky from creation.
C16_StickyIsStaticAndCalm ==
  \A c \in DOMAIN bodies :
    bodies[c].isSticky => (bodies[c].isStatic /\ bodies[c].expression # "worried")

\* a reachTheTop tower holds a cat that has become sticky and a worried cat
\* that is falling
C16_Witness ==
  /\ gameState.gameMode = "reachTheTop"
  /\ \E c, d \in Range(TowerCats) :
       /\ bodies[c].isSticky
       /\ bodies[c].settlingStartTime # Null
       /\ bodies[c].expression = "happy"
       /\ ~bodies[d].isSticky
       /\ bodies[d].expression = "worried"

\* C17: the settling timer of a non-sticky cat measures the time since it
\* contacted the surface it rests on, and the timer and the landed-on body
\* are reset when that contact is lost; so a cat never becomes sticky on the
\* strength of a body that has since been removed from the tower: the body
\* it landed on is the ground or a cat of the tower when it becomes sticky.
C17_StickyOnPresentSurface ==
  [][IsReachTheTopTick =>
       \A c \in Range(TowerCats) \cap Range(gameState'.towerState.cats) :
         (~bodies[c].isSticky /\ bodies'[c].isSticky)
           => bodies'[c].landedOnBody
                \in {GROUND} \cup Range(gameState'.towerState.cats)]_vars

\* the cats of the tower that pass the stability time in this step
NewlyStable ==
  {c \in Range(catsRef) \cap DOMAIN bodies' :
     /\ bodies[c].stableTime < STABILITY_TIME_REQUIRED
     /\ bodies'[c].stableTime >= STABILITY_TIME_REQUIRED}

\* the X the landing of cat c is measured from: the cat below it, or the
\* centre of the play area
ReferenceX(c) ==
  LET i == IndexOf(catsRef, c)
  IN IF i > 1 THEN bodies[catsRef[i - 1]].x ELSE Px(CANVAS_WIDTH \div 2)

IsAwardTick ==
  /\ IsPlayingTick
  /\ gameState.gameMode = "classic"
  /\ CallCount(trace', "awardStabilityPoints") = 1

\* a cat at catX awarded over a cat at belowX, apart from any round
AwardOver(catX, belowX) ==
  LET m == [Cur EXCEPT !.bodies = (1 :> MidBody(Px(belowX), PENDULUM_Y + CAT_HEIGHT, 0,
                                                 TRUE, "happy", 0, Null, Null))
                                  @@ (2 :> MidBody(Px(catX), PENDULUM_Y, 0,
                                                   TRUE, "happy", 0, Null, Null))]
  IN awardStabilityPoints(m, 2, 1).gs.scoreState.score - gameState.scoreState.score

\* C18: each call of awardStabilityPoints adds exactly 1 point, plus exactly
\* 2 more if and only if |catX - referenceX| <= 0.125 x CAT_WIDTH
\* (inclusive), where referenceX is the X of the cat below or the centre 360
\* for a cat with none; a cat at X=450 over a cat at X=360 scores 1, and a
\* cat at 360 over a cat at 360 scores 3.
C18_AwardIsOnePlusPerfectBonus ==
  /\ [][IsAwardTick =>
          \A c \in NewlyStable :
            gameState'.scoreState.score =
              gameState.scoreState.score + POINTS_PER_STACK
                + (IF Abs(bodies[c].x - ReferenceX(c)) * 1000
                        <= Px(CAT_WIDTH) * PERFECT_THRESHOLD
                   THEN PERFECT_BONUS ELSE 0)]_vars
  /\ [](/\ AwardOver(CANVAS_WIDTH \div 2 + CAT_WIDTH + CAT_WIDTH \div 8, CANVAS_WIDTH \div 2)
            = POINTS_PER_STACK
        /\ AwardOver(CANVAS_WIDTH \div 2, CANVAS_WIDTH \div 2)
            = POINTS_PER_STACK + PERFECT_BONUS)

\* the first cat of a classic round, exactly 0.125 x CAT_WIDTH left of the
\* centre of the ground, has been awarded its point and the bonus
C18_Witness ==
  /\ gameState.gameMode = "classic"
  /\ gameState.currentState = "playing"
  /\ Called("awardStabilityPoints")
  /\ Len(catsRef) = 1
  /\ (Px(CANVAS_WIDTH \div 2) - bodies[catsRef[1]].x) * 1000 = Px(CAT_WIDTH) * PERFECT_THRESHOLD
  /\ gameState.scoreState.score = POINTS_PER_STACK + PERFECT_BONUS
  /\ gameState.scoreState.showingPerfect

\* C19: highScore never decreases, over awards, gameover transitions,
\* restarts and mode selections, and after every awardStabilityPoints and
\* every transitionToGameOver it is at least the current score.
C19_HighScoreRatchet ==
  [][/\ gameState'.scoreState.highScore >= gameState.scoreState.highScore
     /\ (\E i \in 1..Len(trace') :
           trace'[i] \in {"awardStabilityPoints", "transitionToGameOver"})
          => gameState'.scoreState.highScore >= gameState'.scoreState.score]_vars

\* a round has been restarted after an award that raised the high score from
\* zero: the score is zero again and the high score is kept
C19_Witness ==
  /\ gameState.currentState = "playing"
  /\ gameState.gameMode = "classic"
  /\ Called("restartGame")
  /\ gameState.scoreState.score = 0
  /\ gameState.scoreState.highScore = POINTS_PER_STACK + PERFECT_BONUS

IsWinStep ==
  /\ gameState.currentState = "playing"
  /\ gameState'.currentState = "win"

\* C20: on a Reach-the-Top win reachTopBest is replaced by catsDropped only
\* if there was no previous best or catsDropped is strictly smaller than it;
\* a tie or a larger count leaves it unchanged, a count <= 0 is rejected, no
\* other step changes it, and once set it never increases.
C20_BestRunOnlyImproves ==
  [][LET best == gameState.scoreState.reachTopBest
         after == gameState'.scoreState.reachTopBest
         used == gameState'.catsDropped
     IN /\ IsWinStep => after = IF best = Null \/ used < best THEN used ELSE best
        /\ ~IsWinStep => after = best
        /\ best # Null => (after # Null /\ after <= best)
        /\ \A n \in {-1, 0} :
             updateReachTopBest(gameState.scoreState, n) = gameState.scoreState]_vars

\* a round has been won with two cats where the best run was one cat: the
\* best run stays one cat
C20_Witness ==
  /\ gameState.currentState = "win"
  /\ LastCall = "transitionToWin"
  /\ gameState.catsDropped = 2
  /\ gameState.scoreState.reachTopBest = 1

\* C21: getCatStats returns stacked = catsDropped - catsLost (6 drops with 1
\* loss gives dropped 6, lost 1, stacked 5), and in every reachable
\* Reach-the-Top state catsLost <= catsDropped and this stacked value is the
\* number of cats in the tower.
C21_StackedIsTowerSize ==
  /\ getCatStats([Cur EXCEPT !.gs.catsDropped = 6, !.gs.catsLost = 1])
       = [dropped |-> 6, lost |-> 1, stacked |-> 5]
  /\ gameState.gameMode = "reachTheTop"
       => /\ gameState.catsLost <= gameState.catsDropped
          /\ getCatStats(Cur).stacked = Len(TowerCats)

\* a reachTheTop round in which three cats were dropped and one was lost
C21_Witness ==
  /\ gameState.gameMode = "reachTheTop"
  /\ gameState.currentState = "playing"
  /\ LastCall = "checkWinCondition"
  /\ getCatStats(Cur) = [dropped |-> 3, lost |-> 1, stacked |-> 2]
  /\ Len(TowerCats) = 2

GameModes == {"classic", "reachTheTop"}

\* C22: selectGameMode, from any prior state, sets gameMode to the selected
\* mode, sets catsDropped and catsLost to 0 and makes currentState playing
\* with input enabled; and the round a mode selection starts has an empty
\* tower, score 0 and base difficulty.
C22_ModeSelectionStartsFreshRound ==
  [][/\ \A mode \in GameModes :
          LET s == selectGameMode(Cur, mode)
          IN /\ s.gs.gameMode = mode
             /\ s.gs.catsDropped = 0
             /\ s.gs.catsLost = 0
             /\ s.gs.currentState = "playing"
             /\ s.input.enabled
     /\ (\E i \in 1..Len(trace') : trace'[i] = "selectGameMode")
          => /\ gameState'.currentState = "playing"
             /\ inputState'.enabled
             /\ gameState'.catsDropped = 0
             /\ gameState'.catsLost = 0
             /\ gameState'.towerState = createTowerState
             /\ catsRef' = <<>>
             /\ world' = {GROUND}
             /\ gameState'.scoreState.score = 0
             /\ gameState'.pendulumState.difficultyLevel = 0
             /\ gameState'.pendulumState.speedMultiplier = <<1, 1>>]_vars

\* reachTheTop has been selected while the re-enable callback of the round
\* before is still pending
C22_Witness ==
  /\ LastCall = "selectGameMode"
  /\ gameState.gameMode = "reachTheTop"
  /\ gameState.currentState = "playing"
  /\ timers # {}

\* C23: transitionToModeSelect, from any state, removes all tower cat bodies
\* from the world, empties the tower, resets score, catsDropped, catsLost,
\* difficulty and pendulum time to their initial values, enables input,
\* leaves highScore, reachTopBest and gameMode unchanged, and sets
\* currentState = modeSelect.
C23_ModeSelectCleansUp ==
  [][LastCall' = "transitionToModeSelect" =>
       /\ world' = world \ Range(TowerCats)
       /\ gameState'.towerState = createTowerState
       /\ gameState'.scoreState.score = 0
       /\ gameState'.catsDropped = 0
       /\ gameState'.catsLost = 0
       /\ gameState'.pendulumState = createPendulum
       /\ inputState'.enabled
       /\ gameState'.scoreState.highScore = gameState.scoreState.highScore
       /\ gameState'.scoreState.reachTopBest = gameState.scoreState.reachTopBest
       /\ gameState'.gameMode = gameState.gameMode
       /\ gameState'.currentState = "modeSelect"]_vars

\* transitionToModeSelect has run on a reachTheTop game with cats in its
\* tower, a high score and a best run
C23_Witness ==
  /\ LastCall = "transitionToModeSelect"
  /\ gameState.currentState = "modeSelect"
  /\ gameState.gameMode = "reachTheTop"
  /\ catsRef # <<>>
  /\ world = {GROUND}
  /\ TowerCats = <<>>
  /\ gameState.scoreState.highScore > 0
  /\ gameState.scoreState.reachTopBest # Null
  /\ inputState.enabled

CleanupCalls == {"restartGame", "transitionToModeSelect", "clearTower"}

\* C30: restart and cleanup are idempotent: applying restartGame (or
\* transitionToModeSelect, or clearTower) twice in a row leaves the game
\* state and the set of bodies in the physics world exactly as after
\* applying it once.
C30_CleanupIdempotent ==
  [][(LastCall \in CleanupCalls /\ LastCall' = LastCall)
       => (gameState' = gameState /\ world' = world)]_vars

\* clearTower has run on a tower of two cats of a round in progress
C30_Witness ==
  /\ LastCall = "clearTower"
  /\ gameState.currentState = "playing"
  /\ gameState.scoreState.score > 0
  /\ Len(catsRef) = 2
  /\ TowerCats = <<>>
  /\ world = {GROUND}

\* C24: transitionToWin and transitionToGameOver disable the input handler
\* at once and, with no other transition intervening, the handler is enabled
\* again once 500 ms have elapsed and not before: while the round is over and
\* the re-enable callback of its transition is still to come, the handler is
\* disabled.
C24_DisabledUntilDelayElapsed ==
  (/\ gameState.currentState \in {"gameover", "win"}
   /\ \E t \in timers : ~t.stale /\ t.due > now)
    => ~inputState.enabled

\* C25: persistence failures never propagate: when storage is unavailable or
\* a read or write throws, loadHighScore yields 0 and loadReachTopBest yields
\* null, saveHighScore and saveReachTopBest return normally, no exception
\* leaves a handler, and updateHighScore and updateReachTopBest still update
\* the highScore and reachTopBest kept in memory while the state transitions
\* go on as with a working storage.
C25_PersistenceFailuresContained ==
  [][LET score == gameState.scoreState
         after == gameState'.scoreState
     IN /\ ~storage'.uncaught
        /\ (~storage.available \/ storage.failing)
             => /\ loadHighScore(storage) = [thrown |-> FALSE, value |-> 0]
                /\ loadReachTopBest(storage) = [thrown |-> FALSE, value |-> Null]
        /\ \A n \in {after.score, after.highScore, gameState'.catsDropped} :
             /\ ~saveHighScore(storage, n).thrown
             /\ ~saveReachTopBest(storage, n).thrown
        /\ IsAwardTick => after.highScore = Max(score.highScore, after.score)
        /\ IsWinStep
             => after.reachTopBest =
                  IF score.reachTopBest = Null \/ gameState'.catsDropped < score.reachTopBest
                  THEN gameState'.catsDropped ELSE score.reachTopBest
        /\ (\E i \in 1..Len(trace') : trace'[i] = "transitionToGameOver")
             => after.highScore >= after.score]_vars

\* with a localStorage whose setItem throws, an award has raised the high
\* score in memory and the stored text is as it was
C25_Witness ==
  /\ storage.available
  /\ storage.failing
  /\ storage.items.highScore = Item(<<"1">>)
  /\ Called("awardStabilityPoints")
  /\ gameState.scoreState.highScore = POINTS_PER_STACK + PERFECT_BONUS
  /\ gameState.currentState = "playing"

Phase(pendulum) == RatMul(pendulum.accumulatedTime, pendulum.speedMultiplier)

\* C26: increasePendulumDifficulty(newLevel) sets the level to newLevel and
\* the speed to that of the level, and rescales accumulatedTime so that the
\* phase accumulatedTime x speedMultiplier is unchanged; the pendulum X is
\* the same before and after the call, for every accumulated time and every
\* pair of old and new levels.
C26_DifficultyKeepsPendulumInPlace ==
  \A newLevel \in 0..MaxLevel :
    LET before == gameState.pendulumState
        after == increasePendulumDifficulty(before, newLevel)
    IN /\ after.difficultyLevel = newLevel
       /\ after.speedMultiplier = RatPow(<<SPEED_NUM, SPEED_DEN>>, newLevel)
       /\ Phase(after) = Phase(before)
       /\ getCurrentPendulumPosition(after) = getCurrentPendulumPosition(before)

\* the difficulty has been raised to level 2 in mid-swing: the accumulated
\* time is no whole number of milliseconds any more
C26_Witness ==
  /\ LastCall = "increasePendulumDifficulty"
  /\ gameState.pendulumState.difficultyLevel = 2
  /\ gameState.pendulumState.accumulatedTime[2] # 1
  /\ PendulumX # Px(CANVAS_WIDTH \div 2)

RatLeq(a, b) == a[1] * b[2] <= b[1] * a[2]

\* C27: no tick advances a game clock by more than 33 ms: the pendulum's
\* accumulatedTime, every cat's stableTime and the perfect-display timer each
\* move by at most 33 ms in one step, and accumulatedTime advances only on
\* ticks in the playing state.
C27_NoClockAdvancesOverCap ==
  [][LET before == gameState.pendulumState.accumulatedTime
         after == gameState'.pendulumState.accumulatedTime
     IN /\ ~RatLeq(after, before) =>
             /\ IsPlayingTick
             /\ RatLeq(after, RatAdd(before, RatOfInt(PENDULUM_DELTA_CAP)))
        /\ \A cat \in DOMAIN bodies \cap DOMAIN bodies' :
             bodies'[cat].stableTime <= bodies[cat].stableTime + PENDULUM_DELTA_CAP
        /\ gameState'.scoreState.perfectDisplayTime
             >= gameState.scoreState.perfectDisplayTime - PENDULUM_DELTA_CAP]_vars

ThresholdsReached(stackedCount) ==
  Cardinality({i \in DOMAIN DIFFICULTY_THRESHOLDS : DIFFICULTY_THRESHOLDS[i] <= stackedCount})

RoundStartCalls == {"restartGame", "selectGameMode", "transitionToModeSelect", "transitionToStart"}

\* C28: at the end of every classic tick the pendulum's difficultyLevel and
\* the tower's difficultyLevel both equal the number of thresholds of
\* [5,10,15,20,25,30] that are <= stackedCount; the level never decreases
\* within a round; and both levels are 0 after restart or mode selection.
C28_DifficultyFollowsStackedCount ==
  [][/\ \A stackedCats \in 0..(DIFFICULTY_THRESHOLDS[Len(DIFFICULTY_THRESHOLDS)] + 1) :
          checkDifficultyThreshold(stackedCats, gameState.towerState.difficultyLevel,
                                   DIFFICULTY_THRESHOLDS)
            = ThresholdsReached(stackedCats)
     /\ (gameState'.gameMode = "classic" /\ now' > now) =>
          /\ gameState'.towerState.difficultyLevel
               = ThresholdsReached(gameState'.towerState.stackedCount)
          /\ gameState'.pendulumState.difficultyLevel
               = gameState'.towerState.difficultyLevel
     /\ (\A i \in 1..Len(trace') : trace'[i] \notin RoundStartCalls) =>
          /\ gameState'.towerState.difficultyLevel >= gameState.towerState.difficultyLevel
          /\ gameState'.pendulumState.difficultyLevel
               >= gameState.pendulumState.difficultyLevel
     /\ (\E i \in 1..Len(trace') : trace'[i] \in {"restartGame", "selectGameMode"}) =>
          /\ gameState'.towerState.difficultyLevel = 0
          /\ gameState'.pendulumState.difficultyLevel = 0]_vars

\* a classic tick has counted the tenth stable cat and raised both levels to 2
C28_Witness ==
  /\ LastCall = "increasePendulumDifficulty"
  /\ gameState.gameMode = "classic"
  /\ gameState.towerState.stackedCount = DIFFICULTY_THRESHOLDS[2]
  /\ gameState.towerState.difficultyLevel = 2
  /\ gameState.pendulumState.difficultyLevel = 2

\* the machine with every body mirrored in the vertical axis of the canvas
Mirrored ==
  [Cur EXCEPT !.bodies = [c \in DOMAIN bodies |->
                            [bodies[c] EXCEPT !.x = Px(CANVAS_WIDTH) - @]]]

\* C29: calculateCatOverlap(a, null) is 1 for every cat a; for two cats it is
\* max(0, CAT_WIDTH - |xa - xb|) / CAT_WIDTH, lies in [0,1], and is unchanged
\* when the two cats are swapped or both X positions are mirrored.  (The
\* model holds the overlap as a width: 1 is the width of a cat.)
C29_OverlapOfTwoCats ==
  \A a \in DOMAIN bodies :
    /\ calculateCatOverlap(Cur, a, Null) = Px(CAT_WIDTH)
    /\ \A b \in DOMAIN bodies :
         LET overlap == calculateCatOverlap(Cur, a, b)
         IN /\ overlap = Max(0, Px(CAT_WIDTH) - Abs(bodies[a].x - bodies[b].x))
            /\ overlap >= 0
            /\ overlap <= Px(CAT_WIDTH)
            /\ overlap = calculateCatOverlap(Cur, b, a)
            /\ overlap = calculateCatOverlap(Mirrored, a, b)

\* a cat has stuck to the cat it landed on, which it overlaps in part, while
\* a third cat lies clear of it
C29_Witness ==
  \E a, b, c \in DOMAIN bodies :
    /\ bodies[a].isSticky
    /\ bodies[a].landedOnBody = b
    /\ calculateCatOverlap(Cur, a, b) > 0
    /\ calculateCatOverlap(Cur, a, b) < Px(CAT_WIDTH)
    /\ calculateCatOverlap(Cur, a, c) = 0

\* C31: immediately after an aligned classic drop the newly added cat's
\* expression is happy.
C31_AlignedDropIsHappy ==
  [][(IsClassicDrop /\ DropAligned) =>
       LET cats == gameState'.towerState.cats
       IN /\ Len(cats) = Len(TowerCats) + 1
          /\ bodies'[cats[Len(cats)]].expression = "happy"]_vars

\* a step that ends a classic round
EndsClassicRound ==
  /\ gameState.gameMode = "classic"
  /\ gameState.currentState = "playing"
  /\ gameState'.currentState = "gameover"

\* C32: when a classic round played through drops and ticks ends,
\* beatHighScore is true if and only if the round's final score exceeds the
\* high score that was in effect when the round started.
C32_BeatHighScoreIffRoundBeatIt ==
  [][EndsClassicRound =>
       (gameState'.beatHighScore <=> gameState'.scoreState.score > roundHighScore)]_vars

\* C33: the isPlaying flag of useGame is true exactly when currentState is
\* playing, after every operation.
C33_IsPlayingMirrorsState ==
  ui.isPlaying <=> gameState.currentState = "playing"

\* C34: after a transition to gameover, no operation available to the player
\* moves currentState from gameover to playing until the 500 ms
\* input-disable delay of that transition has elapsed.
C34_NoRestartDuringDelay ==
  [][(gameState.currentState = "gameover" /\ gameState'.currentState = "playing")
       => \A t \in timers : t.due <= now]_vars

TransitionCalls ==
  {"transitionToStart", "transitionToModeSelect", "selectGameMode", "restartGame",
   "transitionToGameOver", "transitionToWin"}

\* C36: a single pointer event on the canvas causes at most one game-state
\* transition: the event whose drop ends a classic round cannot in the same
\* dispatch also activate the game-over screen's Restart or Change Mode
\* button, and the event that enters modeSelect cannot also select a mode.
C36_OneTransitionPerEvent ==
  [][Cardinality({i \in 1..Len(trace') : trace'[i] \in TransitionCalls}) <= 1]_vars

\* C37: the isStartState flag of useGame equals (currentState = start) after
\* every operation, including a spacebar drop on the start screen, so that
\* whenever currentState is modeSelect the canvas with the mode buttons is
\* shown.
C37_IsStartStateMirrorsState ==
  ui.isInStartState <=> gameState.currentState = "start"

RoundRecord(gs) ==
  <<gs.scoreState.score, gs.scoreState.highScore, gs.scoreState.reachTopBest,
    gs.catsDropped, gs.catsLost, gs.towerState.stackedCount,
    gs.towerState.difficultyLevel, gs.pendulumState.difficultyLevel,
    gs.pendulumState.accumulatedTime, Range(gs.towerState.cats)>>

\* C39: while currentState is gameover or win, ticks change none of score,
\* highScore, reachTopBest, catsDropped, catsLost, stackedCount,
\* difficultyLevel, pendulum accumulatedTime or the membership of the tower;
\* these change again only through restart or mode selection.
C39_FinishedRoundIsFrozen ==
  [][gameState.currentState \in {"gameover", "win"} =>
       /\ now' > now => RoundRecord(gameState') = RoundRecord(gameState)
       /\ RoundRecord(gameState') # RoundRecord(gameState) =>
            \E i \in 1..Len(trace') :
              trace'[i] \in {"restartGame", "transitionToModeSelect", "selectGameMode"}]_vars

\* a tick has run while a won round with two cats is on the screen
C39_Witness ==
  /\ gameState.currentState = "win"
  /\ LastCall = "updatePhysics"
  /\ Len(TowerCats) >= 2
  /\ gameState.catsDropped >= 2

StickyCats(bs, cats) == {c \in Range(cats) : c \in DOMAIN bs /\ bs[c].isSticky}

\* C40: in Reach-the-Top mode stickiness is permanent within a round: once a
\* cat becomes sticky it stays sticky and static at the same position, is
\* never removed as lost, and its settling data is no longer changed by
\* collisions, so the number of sticky cats never decreases until restart or
\* mode selection.
C40_StickyIsPermanent ==
  [][(/\ gameState.gameMode = "reachTheTop"
      /\ \A i \in 1..Len(trace') : trace'[i] \notin RoundStartCalls) =>
       /\ \A c \in StickyCats(bodies, TowerCats) :
            /\ c \in Range(gameState'.towerState.cats)
            /\ c \in world'
            /\ c \in DOMAIN bodies'
            /\ bodies'[c].isSticky
            /\ bodies'[c].isStatic
            /\ bodies'[c].x = bodies[c].x
            /\ bodies'[c].y = bodies[c].y
            /\ bodies'[c].settlingStartTime = bodies[c].settlingStartTime
            /\ bodies'[c].landedOnBody = bodies[c].landedOnBody
       /\ Cardinality(StickyCats(bodies', gameState'.towerState.cats))
            >= Cardinality(StickyCats(bodies, TowerCats))]_vars

\* a tick in which a cat has landed on a sticky cat of the tower
C40_Witness ==
  /\ gameState.gameMode = "reachTheTop"
  /\ gameState.currentState = "playing"
  /\ Called("updateTowerReachTheTop")
  /\ \E c \in StickyCats(bodies, TowerCats), d \in Range(TowerCats) :
       /\ bodies[d].landedOnBody = c
       /\ bodies[d].settlingStartTime = now
       /\ bodies[c].settlingStartTime < now

====
